---- MODULE Spec2Model ----
(***************************************************************************)
(* Notebook relay: the front-end executor of old_version/index.ts (the     *)
(* WebSocket command handlers and their verification polls) and the relay  *)
(* that routes commands between tool connections and front-ends.           *)
(***************************************************************************)
EXTENDS Integers, Sequences, FiniteSets, TLC

(***************************************************************************)
(* Bounds of the model.                                                    *)
(***************************************************************************)
\* Number of command messages the front-end receives in one behaviour.
MaxCmds == 3

(***************************************************************************)
(* Values.                                                                 *)
(***************************************************************************)
\* A field that the JSON message does not carry (undefined in the handler).
Absent == "<absent>"
\* A record field that has no meaning for the message at hand.
None == "<none>"

\* Source texts a command may carry in data.content.
Contents == {"a", "b"}

\* Paths are sequences of characters, so that endsWith is a real suffix test.
PanelPath == <<"d", "/", "n">>
PathInputs == {PanelPath, <<"z">>}

VARIABLES
    cells,      \* notebookModel.cells: the ordered cell ids of the open document
    src,        \* source text of every cell object ever created (id -> text)
    docQueue,   \* mutations the document has accepted but not yet applied
    h,          \* the onmessage invocations: slot -> handler frame
    ncmd,       \* number of messages received so far
    wsOut       \* messages the front-end has sent on the socket, in order

feVars == <<cells, src, docQueue, h, ncmd, wsOut>>

VARIABLES
    status,     \* transport state of each connection: "new", "open" or "closed"
    registry,   \* Connection Registry: registered connection -> role, paths, missed
    pending,    \* Correlation Table: the set of PendingRequests
    feIn,       \* commands forwarded to each front-end connection
    reqs,       \* commands the relay has received from tool connections, in order
    fwd,        \* per command, the connections it was forwarded to, in order
    delivered,  \* per command, the replies the relay sent to a tool connection for it
    dropped,    \* commands for which a front-end message was discarded by the router
    first       \* kind of the first message each connection has sent

relayVars == <<status, registry, pending, feIn, reqs, fwd, delivered, dropped, first>>

VARIABLES
    cellType,        \* cell.model.type of every cell object (id -> "code", "markdown", "raw")
    executionCount,  \* model.executionCount of every cell object (id -> count or null)
    outputs,         \* model.outputs.toJSON() of every cell object (id -> list of outputs)
    disk,            \* the cells that backing storage holds for the document
    kernel,          \* whether sessionContext.session?.kernel is attached
    runs,            \* the onmessage invocations that have called CodeCell.execute
    rl               \* the invocation of smartReloadNotebook

sessVars == <<cellType, executionCount, outputs, disk, kernel, runs, rl>>

VARIABLES
    panel,      \* the NotebookPanel of the document: "none", "opening" (created,
                \* not yet in the tracker), "tracked" or "closing" (close requested,
                \* still in the tracker)
    dirty,      \* context.model.dirty: the document differs from what was last saved
    rendered    \* the markdown cells whose widget has rendered = true

hostVars == <<panel, dirty, rendered>>

VARIABLES
    now,        \* Date.now(), in milliseconds
    socks,      \* the WebSockets that setupWebSocket has created, in order
    watch,      \* the relay's heartbeat check of the front-end connection
    wf          \* an invocation of waitFor with the predicate it polls

timeVars == <<now, socks, watch, wf>>

VARIABLES
    tracker,    \* the paths of the panels in the INotebookTracker, in the order
                \* tracker.forEach visits them
    looked      \* the last message looked up in the tracker and the panels chosen

trackVars == <<tracker, looked>>

vars == <<feVars, relayVars, sessVars, hostVars, timeVars, trackVars>>

(***************************************************************************)
(* Front-end: helpers.                                                     *)
(***************************************************************************)
\* String.prototype.endsWith on character sequences.
EndsWith(s, t) ==
    /\ Len(t) <= Len(s)
    /\ \A k \in 1..Len(t) : s[Len(s) - Len(t) + k] = t[k]

\* panels.find(p => p.context.path === data.path || p.context.path.endsWith(data.path))
\* for the one panel, which the tracker holds until it is disposed.
PanelMatches(path) ==
    /\ panel \in {"tracked", "closing"}
    /\ PanelPath = path \/ EndsWith(PanelPath, path)

\* data.content || ''
ContentOrEmpty(content) == IF content = Absent THEN "" ELSE content

\* data.action.replace(/-cell/g, '') + '-failed'
FailedAction(action) ==
    CASE action = "insert-cell"  -> "insert-failed"
      [] action = "replace-cell" -> "replace-failed"
      [] action = "delete-cell"  -> "delete-failed"
      [] action = "execute-cell" -> "execute-failed"
      [] action = "get-cells"    -> "gets-failed"
      [] action = "save"         -> "save-failed"
      [] action = "reload"       -> "reload-failed"
      [] action = "close-notebook-tab" -> "close-notebook-tab-failed"
      [] OTHER                   -> "action-failed"

\* The reply action of a command action (the past-participle name).
ReplyAction(action) ==
    CASE action = "replace-cell" -> "cell-replaced"
      [] action = "save"         -> "saved"
      [] action = "open-notebook" -> "notebook-opened"
      [] action = "get-cells"    -> "cells-data"
      [] action = "insert-cell"  -> "cell-inserted"
      [] action = "execute-cell" -> "cell-executed"
      [] action = "delete-cell"  -> "cell-deleted"
      [] action = "close-notebook-tab" -> "notebook-tab-closed"

\* The loop of index.ts that finds the first widget whose model id is cell_id;
\* 0 stands for the code's -1, indices are 1-based here.
RECURSIVE FindFrom(_, _, _)
FindFrom(cs, id, i) ==
    IF i > Len(cs) THEN 0
    ELSE IF cs[i] = id THEN i
    ELSE FindFrom(cs, id, i + 1)

FindCellIndex(cs, id) == FindFrom(cs, id, 1)

\* sharedModel.insertCell(position, cell): position is 0-based.
InsertAt(cs, position, id) ==
    SubSeq(cs, 1, position) \o <<id>> \o SubSeq(cs, position + 1, Len(cs))

\* sharedModel.deleteCell(index): index is 1-based here.
DeleteAt(cs, index) ==
    SubSeq(cs, 1, index - 1) \o SubSeq(cs, index + 1, Len(cs))

\* The document as a reader sees it: the id and source text at each position.
DocView(cs, sm) == [k \in 1..Len(cs) |-> [id |-> cs[k], source |-> sm[cs[k]]]]

\* A cell_id that the message does not carry; cell ids are 1, 2, ...
NoId == 0
\* A position, index or execution_count field that the message does not carry.
NoPos == -1

\* `${data.cell_id}` inside an error text.
IdText(id) == ToString(id)

\* Error texts are the pieces of the template string, in order.
NoError == <<>>
\* CellNotFound without the interpolation of the id.
CellNotFoundBare(id) == <<"Cell with ID ", " not found">>

CellNotFound(id) == <<"Cell with ID ", IdText(id), " not found">>

\* A variant of the operator below for a socket kept in a variable shared by
\* all invocations, which setupWebSocket overwrites.
SocketOfLatest(i) == Len(socks)

\* The ws of the closure in which invocation i runs: the socket created by
\* the call of setupWebSocket that assigned this onmessage, on which the
\* message of i arrived (the newest socket while i is being received).
SocketOf(i) == IF h[i].pc = "free" THEN Len(socks) ELSE h[i].ws

\* A message of ws.send; cmd (the invocation that sent it) and docAt (the
\* document at the moment of the send) are history, not part of the JSON,
\* and so are ws (the socket whose send was called), readyState (its state
\* at the call: a socket that is not open discards the data) and newest (the
\* newest socket at the call).
Msg(action, path, success, cell_id, position, index, error, cmd, doc) ==
    [action |-> action, path |-> path, success |-> success, cell_id |-> cell_id,
     position |-> position, index |-> index, error |-> error,
     cmd |-> cmd, docAt |-> IF success = "true" THEN doc ELSE <<>>,
     ws |-> SocketOf(cmd), readyState |-> socks[SocketOf(cmd)].state,
     newest |-> Len(socks)]

FreeFrame ==
    [pc |-> "free", action |-> None, path |-> <<>>, cell_id |-> NoId,
     content |-> None, position |-> 0, cellIndex |-> 0,
     requested |-> NoPos, waitForSave |-> FALSE, ws |-> 0, at |-> 0]

(***************************************************************************)
(* The document (host collaborator): a mutation is applied either inside   *)
(* the mutating call or later, in the order the calls were made.           *)
(***************************************************************************)
InsertOp(position, source) ==
    [kind |-> "insert", position |-> position, id |-> NoId, source |-> source]
SetSourceOp(id, source) ==
    [kind |-> "setSource", position |-> 0, id |-> id, source |-> source]
DeleteOp(index) ==
    [kind |-> "delete", position |-> index, id |-> NoId, source |-> ""]

\* The document after op; detached says whether a setSource on a cell that
\* is no longer in the document still changes the detached cell object.
ApplyOp(op, d, detached) ==
    CASE op.kind = "insert" ->
           IF op.position <= Len(d.cells)
           THEN LET id == Cardinality(DOMAIN d.src) + 1 IN
                [cells |-> InsertAt(d.cells, op.position, id),
                 src   |-> d.src @@ (id :> op.source)]
           ELSE d
      [] op.kind = "setSource" ->
           IF FindCellIndex(d.cells, op.id) > 0 \/ detached
           THEN [d EXCEPT !.src[op.id] = op.source]
           ELSE d
      [] op.kind = "delete" ->
           IF op.position >= 1 /\ op.position <= Len(d.cells)
           THEN [d EXCEPT !.cells = DeleteAt(d.cells, op.position)]
           ELSE d

\* A mutating call of the handlers: applied at once when sync (and nothing is
\* waiting to be applied), queued otherwise.
Mutate(op, sync) ==
    IF sync /\ docQueue = <<>>
    THEN LET d == ApplyOp(op, [cells |-> cells, src |-> src], FALSE) IN
         [cells |-> d.cells, src |-> d.src, q |-> docQueue]
    ELSE [cells |-> cells, src |-> src, q |-> Append(docQueue, op)]

\* The document applies the oldest queued mutation.
DocApply ==
    /\ docQueue # <<>>
    /\ \E detached \in BOOLEAN :
         LET d == ApplyOp(Head(docQueue), [cells |-> cells, src |-> src], detached) IN
         /\ cells' = d.cells
         /\ src' = d.src
         /\ dirty' = (dirty \/ d.cells # cells \/ d.src # src)
    /\ docQueue' = Tail(docQueue)
    /\ UNCHANGED <<h, ncmd, wsOut, panel, rendered>>
    /\ UNCHANGED <<relayVars, sessVars, timeVars, trackVars>>

(***************************************************************************)
(* The verification predicates handed to waitFor.                          *)
(***************************************************************************)
\* insert-cell: cells.length > position && cells.get(position) source === data.content
InsertVerified(f, cs, sm) ==
    /\ Len(cs) > f.position
    /\ sm[cs[f.position + 1]] = f.content

\* replace-cell: cellWidget.model.sharedModel.getSource() === (data.content || '')
ReplaceVerified(f, cs, sm) == sm[f.cell_id] = ContentOrEmpty(f.content)

\* delete-cell: no cell of notebookModel.cells has id data.cell_id
DeleteVerified(f, cs, sm) == \A k \in 1..Len(cs) : cs[k] # f.cell_id

(***************************************************************************)
(* ws.onmessage and the continuations of its awaits.                       *)
(***************************************************************************)
\* An id that no cell of the document ever has.
MissingId == 9

Commands ==
    [action : {"insert-cell"}, path : PathInputs, cell_id : {NoId},
     content : Contents \cup {Absent}]
    \cup [action : {"replace-cell"}, path : PathInputs,
          cell_id : DOMAIN src \cup {NoId, MissingId}, content : Contents \cup {Absent}]
    \cup [action : {"delete-cell"}, path : PathInputs,
          cell_id : DOMAIN src \cup {NoId, MissingId}, content : {Absent}]

\* A field of the message that it may not carry.
Field(data, name, default) == IF name \in DOMAIN data THEN data[name] ELSE default

\* The frame of a handler: the fields of its message (requested is
\* data.position), the socket ws it arrived on, the time at which it
\* arrived and the handler's locals.
Frame(data, pc, position, cellIndex) ==
    [pc |-> pc, action |-> data.action, path |-> data.path, cell_id |-> data.cell_id,
     content |-> data.content, position |-> position, cellIndex |-> cellIndex,
     requested |-> IF "requested" \in DOMAIN data THEN data.requested
                   ELSE Field(data, "position", NoPos),
     waitForSave |-> Field(data, "waitForSave", FALSE),
     ws |-> Field(data, "ws", Len(socks)),
     at |-> Field(data, "at", now)]

\* Whether the model is dirty after a mutating call that left the document d.
Dirtied(d) == dirty \/ d.cells # cells \/ d.src # src

Send(m) == wsOut' = Append(wsOut, m)

\* No panel matches data.path: the reply of lines 169-173.
NoPanel(i, data) ==
    /\ Send(Msg(FailedAction(data.action), data.path, "false", NoId, NoPos, NoPos,
                <<"Target notebook is not open or not found.">>, i, DocView(cells, src)))
    /\ h' = [h EXCEPT ![i] = Frame(data, "done", 0, 0)]
    /\ UNCHANGED <<cells, src, docQueue, dirty>>

\* insert-cell up to the first poll of its waitFor.
InsertCell(i, data, sync) ==
    LET position == Len(cells)
        d == Mutate(InsertOp(position, ContentOrEmpty(data.content)), sync)
        f == Frame(data, "poll", position, 0)
    IN  /\ cells' = d.cells
        /\ src' = d.src
        /\ docQueue' = d.q
        /\ dirty' = Dirtied(d)
        /\ h' = [h EXCEPT ![i] =
                 IF InsertVerified(f, d.cells, d.src) THEN [f EXCEPT !.pc = "save"] ELSE f]
        /\ UNCHANGED wsOut

CellReplaced(f, i, cs, sm) ==
    Msg("cell-replaced", f.path, "true", f.cell_id, NoPos, NoPos, NoError, i, DocView(cs, sm))

CellDeleted(f, i, cs, sm) ==
    Msg("cell-deleted", f.path, "true", f.cell_id, NoPos, f.cellIndex - 1, NoError, i,
        DocView(cs, sm))

\* replace-cell up to the first poll of its waitFor.
ReplaceCell(i, data, sync) ==
    LET cellIndex == FindCellIndex(cells, data.cell_id) IN
    IF cellIndex > 0
    THEN LET d == Mutate(SetSourceOp(data.cell_id, ContentOrEmpty(data.content)), sync)
             f == Frame(data, "poll", 0, cellIndex)
         IN  /\ cells' = d.cells
             /\ src' = d.src
             /\ docQueue' = d.q
             /\ dirty' = Dirtied(d)
             /\ IF ReplaceVerified(f, d.cells, d.src)
                THEN /\ Send(CellReplaced(f, i, d.cells, d.src))
                     /\ h' = [h EXCEPT ![i] = [f EXCEPT !.pc = "done"]]
                ELSE /\ h' = [h EXCEPT ![i] = f]
                     /\ UNCHANGED wsOut
    ELSE /\ Send(Msg("cell-replaced", data.path, "false", data.cell_id, NoPos, NoPos,
                     CellNotFound(data.cell_id), i, DocView(cells, src)))
         /\ h' = [h EXCEPT ![i] = Frame(data, "done", 0, 0)]
         /\ UNCHANGED <<cells, src, docQueue, dirty>>

\* delete-cell up to the first poll of its waitFor.
DeleteCell(i, data, sync) ==
    LET cellIndex == FindCellIndex(cells, data.cell_id) IN
    IF cellIndex > 0
    THEN LET d == Mutate(DeleteOp(cellIndex), sync)
             f == Frame(data, "poll", 0, cellIndex)
         IN  /\ cells' = d.cells
             /\ src' = d.src
             /\ docQueue' = d.q
             /\ dirty' = Dirtied(d)
             /\ IF DeleteVerified(f, d.cells, d.src)
                THEN /\ Send(CellDeleted(f, i, d.cells, d.src))
                     /\ h' = [h EXCEPT ![i] = [f EXCEPT !.pc = "done"]]
                ELSE /\ h' = [h EXCEPT ![i] = f]
                     /\ UNCHANGED wsOut
    ELSE /\ Send(Msg("cell-deleted", data.path, "false", data.cell_id, NoPos, NoPos,
                     CellNotFound(data.cell_id), i, DocView(cells, src)))
         /\ h' = [h EXCEPT ![i] = Frame(data, "done", 0, 0)]
         /\ UNCHANGED <<cells, src, docQueue, dirty>>

(***************************************************************************)
(* Outputs of code cells and processCellOutputsForLLM.                     *)
(***************************************************************************)
\* String.prototype.startsWith on sequences of text pieces.
StartsWith(s, t) ==
    /\ Len(t) <= Len(s)
    /\ \A k \in 1..Len(t) : s[k] = t[k]

\* Media types, as the pieces of their text.
ImagePng == <<"image", "/", "png">>
ImageSvg == <<"image", "/", "svg+xml">>
TextPlain == <<"text", "/", "plain">>

\* mimeType.startsWith('image/')
IsImage(mimeType) == StartsWith(mimeType, <<"image", "/">>)

\* A value of a mime bundle: a string (body: its characters) or a list of
\* strings (body: the strings, each the sequence of its characters).
StringValue(chars) == [shape |-> "string", body |-> chars]
ListValue(strings) == [shape |-> "list", body |-> strings]

\* Bytes of one character in UTF-8; "U+00E9" is a character of two bytes.
Utf8Bytes(ch) == IF ch = "U+00E9" THEN 2 ELSE 1

\* new TextEncoder().encode(s).length
RECURSIVE ByteLength(_)
ByteLength(chars) ==
    IF chars = <<>> THEN 0 ELSE Utf8Bytes(Head(chars)) + ByteLength(Tail(chars))

\* `<image_data_truncated: ${mimeType}, original_size=${n} bytes>`
Placeholder(mimeType, n) ==
    StringValue(<<"<image_data_truncated: ">> \o mimeType
                \o <<", original_size=", ToString(n), " bytes>">>)

\* An IOutput; data is the mime bundle (empty for an output without one).
Output(output_type, data) == [output_type |-> output_type, data |-> data]

TextResult == Output("execute_result", TextPlain :> StringValue(<<"2">>))
PngDisplay == Output("display_data", ImagePng :> StringValue(<<"A", "U+00E9">>))
SvgDisplay == Output("display_data", ImageSvg :> ListValue(<<(<<"<", "s">>), (<<"U+00E9">>)>>))
PngUpdate  == Output("update_display_data", ImagePng :> StringValue(<<"A">>))
ErrorOutput == Output("error", <<>>)

\* processCellOutputsForLLM: a copy of the outputs in which the image values
\* of display_data and execute_result outputs are placeholders.
ProcessCellOutputsForLLM(outs) ==
    [k \in 1..Len(outs) |->
        LET o == outs[k] IN
        IF o.output_type \in {"display_data", "execute_result"}
        THEN [o EXCEPT !.data =
                 [m \in DOMAIN o.data |->
                     IF IsImage(m)
                     THEN Placeholder(m, IF o.data[m].shape = "string"
                                         THEN ByteLength(o.data[m].body) ELSE 0)
                     ELSE o.data[m]]]
        ELSE o]

(***************************************************************************)
(* Execution state of the cells.                                           *)
(***************************************************************************)
\* executionCount null.
NullCount == 0

\* A cell object that insert-cell created is a code cell (Commands carry no
\* cell_type 'markdown') that was never executed.
TypeOf(id) == IF id \in DOMAIN cellType THEN cellType[id] ELSE "code"
CountOf(id) == IF id \in DOMAIN executionCount THEN executionCount[id] ELSE NullCount
OutputsOf(id) == IF id \in DOMAIN outputs THEN outputs[id] ELSE <<>>

\* f with f[id] set to v, id being in its domain or not.
Put(f, id, v) == [x \in DOMAIN f \cup {id} |-> IF x = id THEN v ELSE f[x]]

(***************************************************************************)
(* get-cells and execute-cell.                                             *)
(***************************************************************************)
\* The outputs field of a message that does not carry one.
NoField == <<Output("<absent>", <<>>)>>

\* A cell-executed or cell-execution-acknowledged message.
ExecMsg(action, data, result, error_message, outs, execution_count, i) ==
    [action |-> action, path |-> data.path, success |-> Absent,
     cell_id |-> data.cell_id, status |-> result,
     error_type |-> IF result = "error" THEN "ExecutionError" ELSE Absent,
     error |-> error_message, outputs |-> outs,
     execution_count |-> execution_count, cmd |-> i,
     ws |-> SocketOf(i), readyState |-> socks[SocketOf(i)].state,
     newest |-> Len(socks)]

KernelNotAvailable == <<"Kernel not available (timed out)">>
WidgetNotFound(id) == <<"Cell widget with ID ", IdText(id), " not found">>
ExecutionFailed == <<"Cell execution failed">>
ExecutionError == <<"Cell execution error: ", "<errorMsg>">>

\* The entry of cells-data for one cell widget.
CellData(id) ==
    [cell_id |-> id, cell_type |-> TypeOf(id), content |-> src[id],
     outputs |-> IF TypeOf(id) = "code"
                 THEN ProcessCellOutputsForLLM(OutputsOf(id)) ELSE NoField,
     execution_count |-> IF TypeOf(id) = "code" THEN CountOf(id) ELSE NoPos]

\* get-cells: one entry per widget, in order; the reply has no success field.
GetCells(i, data) ==
    /\ Send([action |-> "cells-data", path |-> data.path, success |-> Absent,
             cell_id |-> NoId, cells |-> [k \in 1..Len(cells) |-> CellData(cells[k])],
             cmd |-> i, ws |-> SocketOf(i), readyState |-> socks[SocketOf(i)].state,
             newest |-> Len(socks)])
    /\ h' = [h EXCEPT ![i] = Frame(data, "done", 0, 0)]
    /\ UNCHANGED <<cells, src, docQueue>>
    /\ UNCHANGED <<sessVars, hostVars>>

Acknowledged(i, data) ==
    ExecMsg("cell-execution-acknowledged", data, Absent, NoError, NoField, NoPos, i)

\* A variant of the step below that polls for the kernel before it looks at
\* the type of the cell.
RunWidgetNeedsKernel(i, data, sent) ==
    IF ~kernel
    THEN /\ wsOut' = sent
         /\ h' = [h EXCEPT ![i] = Frame(data, "kernel", 0, 0)]
         /\ UNCHANGED <<runs, rendered>>
    ELSE IF TypeOf(data.cell_id) = "markdown"
    THEN /\ wsOut' = sent \o <<ExecMsg("cell-executed", data, "success", NoError,
                                       <<>>, NoPos, i)>>
         /\ h' = [h EXCEPT ![i] = Frame(data, "done", 0, 0)]
         /\ rendered' = rendered \cup {data.cell_id}
         /\ UNCHANGED runs
    ELSE IF TypeOf(data.cell_id) # "code"
    THEN /\ wsOut' = sent
         /\ h' = [h EXCEPT ![i] = Frame(data, "done", 0, 0)]
         /\ UNCHANGED <<runs, rendered>>
    ELSE /\ wsOut' = sent
         /\ h' = [h EXCEPT ![i] = Frame(data, "exec", 0, 0)]
         /\ runs' = runs \cup {i}
         /\ UNCHANGED rendered

\* execute-cell once cellWidget is found: a markdown cell is rendered and
\* acknowledged; a cell that is neither a MarkdownCell nor a CodeCell (a raw
\* cell) ends the handler; for a code cell the first poll for the kernel, and
\* with a kernel the call of CodeCell.execute. sent: what this step has sent
\* before.
RunWidget(i, data, sent) ==
    IF TypeOf(data.cell_id) = "markdown"
    THEN /\ wsOut' = sent \o <<ExecMsg("cell-executed", data, "success", NoError,
                                       <<>>, NoPos, i)>>
         /\ h' = [h EXCEPT ![i] = Frame(data, "done", 0, 0)]
         /\ rendered' = rendered \cup {data.cell_id}
         /\ UNCHANGED runs
    ELSE IF TypeOf(data.cell_id) # "code"
    THEN /\ wsOut' = sent
         /\ h' = [h EXCEPT ![i] = Frame(data, "done", 0, 0)]
         /\ UNCHANGED <<runs, rendered>>
    ELSE IF kernel
    THEN /\ wsOut' = sent
         /\ h' = [h EXCEPT ![i] = Frame(data, "exec", 0, 0)]
         /\ runs' = runs \cup {i}
         /\ UNCHANGED rendered
    ELSE /\ wsOut' = sent
         /\ h' = [h EXCEPT ![i] = Frame(data, "kernel", 0, 0)]
         /\ UNCHANGED <<runs, rendered>>

\* execute-cell up to its first suspension: the acknowledgement and the
\* first poll for the cell widget.
ExecuteCell(i, data) ==
    /\ IF FindCellIndex(cells, data.cell_id) > 0
       THEN RunWidget(i, data, Append(wsOut, Acknowledged(i, data)))
       ELSE /\ Send(Acknowledged(i, data))
            /\ h' = [h EXCEPT ![i] = Frame(data, "widget", 0, 0)]
            /\ UNCHANGED <<runs, rendered>>
    /\ UNCHANGED <<cells, src, docQueue, panel, dirty>>
    /\ UNCHANGED <<cellType, executionCount, outputs, disk, kernel, rl>>

(***************************************************************************)
(* State-preserving reload: handleReloadAction and smartReloadNotebook.    *)
(***************************************************************************)
\* The index of the last "/" of path, 0 when it has none.
RECURSIVE LastSlash(_, _)
LastSlash(path, k) ==
    IF k = 0 THEN 0 ELSE IF path[k] = "/" THEN k ELSE LastSlash(path, k - 1)

\* path.split('/').pop()
LastSegment(path) == SubSeq(path, LastSlash(path, Len(path)) + 1, Len(path))

\* findInTracker(tracker, p => p.context.path.endsWith(path.split('/').pop()))
ReloadPanelFound(path) == EndsWith(PanelPath, LastSegment(path))

\* One entry of cellStates; id (the cell the entry was taken from) is
\* history, the code keeps the entries by position only.
CellState(id) ==
    IF TypeOf(id) = "code"
    THEN [executionCount |-> CountOf(id), outputs |-> OutputsOf(id),
          isCodeCell |-> TRUE, id |-> id]
    ELSE [executionCount |-> NullCount, outputs |-> <<>>,
          isCodeCell |-> FALSE, id |-> id]

\* smartReloadNotebook before its await: cellStates of notebook.widgets.
Snapshot == [k \in 1..Len(cells) |-> CellState(cells[k])]

\* reread is history: while the revert of the catch is awaited, whether the
\* first context.revert() had resolved.
IdleReload == [pc |-> "idle", cellStates |-> <<>>, reread |-> FALSE]

\* The cell that storage holds under id.
DiskIds == {disk[k].id : k \in 1..Len(disk)}
DiskCell(id) == disk[CHOOSE k \in 1..Len(disk) : disk[k].id = id]

\* The document after context.revert(): the cells of storage, in its order,
\* each a new cell object with what storage holds for it.
RevertedCells == [k \in 1..Len(disk) |-> disk[k].id]
RevertedSrc ==
    [x \in DOMAIN src \cup DiskIds |-> IF x \in DiskIds THEN DiskCell(x).source ELSE src[x]]
RevertedType ==
    [x \in DOMAIN cellType \cup DiskIds |->
        IF x \in DiskIds THEN DiskCell(x).cell_type ELSE cellType[x]]
RevertedCount ==
    [x \in DOMAIN executionCount \cup DiskIds |->
        IF x \in DiskIds THEN DiskCell(x).execution_count ELSE executionCount[x]]
RevertedOutputs ==
    [x \in DOMAIN outputs \cup DiskIds |->
        IF x \in DiskIds THEN DiskCell(x).outputs ELSE outputs[x]]

\* Restorable with the index test off by one: the last entry is left out.
RestorableButLast(st, k) ==
    /\ k < Len(st)
    /\ st[k].isCodeCell
    /\ RevertedType[RevertedCells[k]] = "code"

\* The test of the restoring loop for the widget at index k (1-based).
Restorable(st, k) ==
    /\ k <= Len(st)
    /\ st[k].isCodeCell
    /\ RevertedType[RevertedCells[k]] = "code"

\* The index, among the first n widgets, of the widget that is cell x.
WidgetIndex(x, n) == CHOOSE k \in 1..n : RevertedCells[k] = x
IsWidget(x, n) == \E k \in 1..n : RevertedCells[k] = x

\* executionCount after the restoring loop has handled the first n widgets.
RestoredCount(st, n) ==
    [x \in DOMAIN RevertedCount |->
        IF /\ IsWidget(x, n)
           /\ Restorable(st, WidgetIndex(x, n))
           /\ st[WidgetIndex(x, n)].executionCount # NullCount
        THEN st[WidgetIndex(x, n)].executionCount
        ELSE RevertedCount[x]]

\* RestoredOutputs without the test that the saved outputs are not empty.
RestoredOutputsUnguarded(st, n) ==
    [x \in DOMAIN RevertedOutputs |->
        IF IsWidget(x, n) /\ Restorable(st, WidgetIndex(x, n))
        THEN st[WidgetIndex(x, n)].outputs
        ELSE RevertedOutputs[x]]

\* outputs after the restoring loop has handled the first n widgets.
RestoredOutputs(st, n) ==
    [x \in DOMAIN RevertedOutputs |->
        IF /\ IsWidget(x, n)
           /\ Restorable(st, WidgetIndex(x, n))
           /\ Len(st[WidgetIndex(x, n)].outputs) > 0
        THEN st[WidgetIndex(x, n)].outputs
        ELSE RevertedOutputs[x]]

\* reload: handleReloadAction starts smartReloadNotebook on the panel it
\* finds and returns without waiting for it; no reply is sent.
HandleReloadAction(i, data) ==
    /\ rl' = [rl EXCEPT ![i] =
                 IF ReloadPanelFound(data.path)
                 THEN [pc |-> "revert", cellStates |-> Snapshot, reread |-> FALSE]
                 ELSE rl[i]]
    /\ h' = [h EXCEPT ![i] = Frame(data, "done", 0, 0)]
    /\ UNCHANGED <<cells, src, docQueue, wsOut, hostVars>>
    /\ UNCHANGED <<cellType, executionCount, outputs, disk, kernel, runs>>

(***************************************************************************)
(* open-notebook, save and close-notebook-tab.                             *)
(***************************************************************************)
\* A reply of open-notebook, save or close-notebook-tab.
HostMsg(action, data, success, error, i) ==
    Msg(action, data.path, success, NoId, NoPos, NoPos, error, i, DocView(cells, src))

\* What docManager.open(path) does: it returns the widget of the document,
\* returns undefined when it has none for the path, or throws.
OpenOutcomes(path) ==
    IF path = PanelPath THEN {"widget", "throws"} ELSE {"undefined", "throws"}

\* open-notebook: !!widget && tracker.has(widget)
OpenVerified(f) == f.path = PanelPath /\ panel \in {"tracked", "closing"}

\* open-notebook up to the first poll of its waitFor; a new panel is added
\* to the tracker inside the call (sync) or later.
OpenNotebook(i, data, sync) ==
    /\ \E outcome \in OpenOutcomes(data.path) :
         CASE outcome = "throws" ->
                /\ Send(HostMsg("notebook-opened", data, "false",
                                <<"Failed to open document: ", "<errorMsg>">>, i))
                /\ h' = [h EXCEPT ![i] = Frame(data, "done", 0, 0)]
                /\ UNCHANGED panel
           [] outcome = "undefined" ->
                /\ h' = [h EXCEPT ![i] = Frame(data, "poll", 0, 0)]
                /\ UNCHANGED <<wsOut, panel>>
           [] outcome = "widget" ->
                IF panel \in {"tracked", "closing"} \/ (panel = "none" /\ sync)
                THEN /\ Send(HostMsg("notebook-opened", data, "true", NoError, i))
                     /\ h' = [h EXCEPT ![i] = Frame(data, "done", 0, 0)]
                     /\ panel' = IF panel = "none" THEN "tracked" ELSE panel
                ELSE /\ h' = [h EXCEPT ![i] = Frame(data, "poll", 0, 0)]
                     /\ panel' = "opening"
                     /\ UNCHANGED wsOut
    /\ UNCHANGED <<cells, src, docQueue, dirty, rendered>>
    /\ UNCHANGED sessVars

\* The host adds the panel it has created to the tracker.
PanelTracked ==
    /\ panel = "opening"
    /\ panel' = "tracked"
    /\ UNCHANGED <<dirty, rendered>>
    /\ UNCHANGED <<feVars, relayVars, sessVars, timeVars, trackVars>>

\* The host disposes of the panel whose close was requested.
PanelDisposed ==
    /\ panel = "closing"
    /\ panel' = "none"
    /\ UNCHANGED <<dirty, rendered>>
    /\ UNCHANGED <<feVars, relayVars, sessVars, timeVars, trackVars>>

\* The user edits the document.
UserEdit ==
    /\ panel = "tracked"
    /\ ~dirty
    /\ dirty' = TRUE
    /\ UNCHANGED <<panel, rendered>>
    /\ UNCHANGED <<feVars, relayVars, sessVars, timeVars, trackVars>>

\* save, and close-notebook-tab whose panelToClose is found (it is the panel
\* that line 167 has found): up to the await of context.save().
AwaitSave(i, data) ==
    /\ h' = [h EXCEPT ![i] = Frame(data, "save", 0, 0)]
    /\ UNCHANGED <<cells, src, docQueue, wsOut>>
    /\ UNCHANGED <<sessVars, hostVars>>

\* A message arrives: the synchronous part of ws.onmessage, up to its first
\* suspension or its return.
Dispatch(i, data, sync) ==
    IF data.action = "open-notebook" THEN OpenNotebook(i, data, sync)
    ELSE IF ~PanelMatches(data.path)
         THEN NoPanel(i, data) /\ UNCHANGED <<sessVars, panel, rendered>>
    ELSE IF data.action = "save" THEN AwaitSave(i, data)
    ELSE IF data.action = "get-cells" THEN GetCells(i, data)
    ELSE IF data.action = "insert-cell"
         THEN InsertCell(i, data, sync) /\ UNCHANGED <<sessVars, panel, rendered>>
    ELSE IF data.action = "execute-cell" THEN ExecuteCell(i, data)
    ELSE IF data.action = "replace-cell" /\ data.cell_id # NoId
         THEN ReplaceCell(i, data, sync) /\ UNCHANGED <<sessVars, panel, rendered>>
    ELSE IF data.action = "delete-cell" /\ data.cell_id # NoId
         THEN DeleteCell(i, data, sync) /\ UNCHANGED <<sessVars, panel, rendered>>
    ELSE IF data.action = "close-notebook-tab" THEN AwaitSave(i, data)
    ELSE IF data.action = "reload" THEN HandleReloadAction(i, data)
    ELSE /\ h' = [h EXCEPT ![i] = Frame(data, "done", 0, 0)]
         /\ UNCHANGED <<cells, src, docQueue, wsOut>>
         /\ UNCHANGED <<sessVars, hostVars>>

\* ws.onmessage for a message drawn from the set D.
Receive(D) ==
    /\ ncmd < MaxCmds
    /\ socks # <<>> /\ socks[Len(socks)].state = "open"
    /\ ncmd' = ncmd + 1
    /\ UNCHANGED <<relayVars, timeVars, trackVars>>
    /\ \E data \in D, sync \in BOOLEAN : Dispatch(ncmd + 1, data, sync)

\* The messages of get-cells and execute-cell.
SessionCommands ==
    [action : {"get-cells"}, path : PathInputs, cell_id : {NoId}, content : {Absent}]
    \cup [action : {"execute-cell"}, path : PathInputs,
          cell_id : DOMAIN src \cup {MissingId}, content : {Absent}]

\* The reload messages.
ReloadCommands ==
    [action : {"reload"}, path : PathInputs, cell_id : {NoId}, content : {Absent}]

\* The waitFor calls a handler can be suspended in.
PollPcs == {"poll", "widget", "kernel"}

\* A later poll of waitFor finds the predicate true.
PollTrue(i) ==
    /\ h[i].pc \in PollPcs
    /\ LET f == h[i] IN
       CASE f.action = "open-notebook" ->
              /\ OpenVerified(f)
              /\ Send(HostMsg("notebook-opened", f, "true", NoError, i))
              /\ h' = [h EXCEPT ![i].pc = "done"]
              /\ UNCHANGED <<runs, rendered>>
         [] f.action = "insert-cell" ->
              /\ InsertVerified(f, cells, src)
              /\ h' = [h EXCEPT ![i].pc = "save"]
              /\ UNCHANGED <<wsOut, runs, rendered>>
         [] f.action = "replace-cell" ->
              /\ ReplaceVerified(f, cells, src)
              /\ Send(CellReplaced(f, i, cells, src))
              /\ h' = [h EXCEPT ![i].pc = "done"]
              /\ UNCHANGED <<runs, rendered>>
         [] f.action = "delete-cell" ->
              /\ DeleteVerified(f, cells, src)
              /\ Send(CellDeleted(f, i, cells, src))
              /\ h' = [h EXCEPT ![i].pc = "done"]
              /\ UNCHANGED <<runs, rendered>>
         [] f.action = "execute-cell" /\ f.pc = "widget" ->
              /\ FindCellIndex(cells, f.cell_id) > 0
              /\ RunWidget(i, f, wsOut)
         [] f.action = "execute-cell" /\ f.pc = "kernel" ->
              /\ kernel
              /\ h' = [h EXCEPT ![i].pc = "exec"]
              /\ runs' = runs \cup {i}
              /\ UNCHANGED <<wsOut, rendered>>
    /\ UNCHANGED <<cells, src, docQueue, ncmd, panel, dirty>>
    /\ UNCHANGED <<cellType, executionCount, outputs, disk, kernel, rl>>
    /\ UNCHANGED <<relayVars, timeVars, trackVars>>

\* The error text of the reply sent when the waitFor of a handler times out.
VerifyFailed(action) ==
    CASE action = "open-notebook" ->
           <<"Timeout: Notebook panel did not become active in the tracker.">>
      [] action = "insert-cell"  ->
           <<"Failed to verify cell widget creation on the frontend.">>
      [] action = "replace-cell" -> <<"Failed to verify cell content replacement.">>
      [] action = "delete-cell"  -> <<"Failed to verify cell deletion from model.">>

\* PollTimeout whose kernel branch lacks the return: after the failure
\* reply the handler goes on to CodeCell.execute.
PollTimeoutFallsThrough(i) ==
    /\ h[i].pc \in PollPcs
    /\ h[i].action = "execute-cell"
    /\ Send(ExecMsg("cell-executed", h[i], "error",
                    IF h[i].pc = "widget" THEN WidgetNotFound(h[i].cell_id)
                    ELSE KernelNotAvailable, NoField, NoPos, i))
    /\ h' = [h EXCEPT ![i].pc = IF h[i].pc = "kernel" THEN "exec" ELSE "done"]
    /\ runs' = IF h[i].pc = "kernel" THEN runs \cup {i} ELSE runs
    /\ UNCHANGED <<cells, src, docQueue, ncmd, hostVars>>
    /\ UNCHANGED <<cellType, executionCount, outputs, disk, kernel, rl>>
    /\ UNCHANGED <<relayVars, timeVars, trackVars>>

\* waitFor finds its deadline passed after a sleep and returns false.
PollTimeout(i) ==
    /\ h[i].pc \in PollPcs
    /\ LET f == h[i] IN
       IF f.action = "execute-cell"
       THEN Send(ExecMsg("cell-executed", f, "error",
                         IF f.pc = "widget" THEN WidgetNotFound(f.cell_id)
                         ELSE KernelNotAvailable,
                         NoField, NoPos, i))
       ELSE
       Send(Msg(ReplyAction(f.action), f.path, "false",
                IF f.action \in {"replace-cell", "delete-cell"} THEN f.cell_id ELSE NoId,
                NoPos, NoPos, VerifyFailed(f.action), i, DocView(cells, src)))
    /\ h' = [h EXCEPT ![i].pc = "done"]
    /\ UNCHANGED <<cells, src, docQueue, ncmd, hostVars>>
    /\ UNCHANGED <<relayVars, sessVars, timeVars, trackVars>>

\* close-notebook-tab after its save: panelToClose.close() returns nothing
\* to await, so the success reply is sent whether or not the panel has been
\* disposed of by then.
CloseRequested(f, i) ==
    /\ panel' \in (IF panel = "none" THEN {"none"} ELSE {"closing", "none"})
    /\ Send(HostMsg("notebook-tab-closed", f, "true", NoError, i))

\* panel.context.save() resolves, the document saved. insert-cell: the cell
\* at position is read and reported; reading past the end throws, which the
\* outer catch logs. save: the reply is sent when asked for.
SaveResolved(i) ==
    /\ h[i].pc = "save"
    /\ dirty' = FALSE
    /\ LET f == h[i] IN
       CASE f.action = "insert-cell" ->
              /\ IF f.position < Len(cells)
                 THEN Send(Msg("cell-inserted", f.path, "true", cells[f.position + 1],
                               f.position, NoPos, NoError, i, DocView(cells, src)))
                 ELSE UNCHANGED wsOut
              /\ UNCHANGED panel
         [] f.action = "save" ->
              /\ IF f.waitForSave
                 THEN Send(HostMsg("saved", f, "true", NoError, i))
                 ELSE UNCHANGED wsOut
              /\ UNCHANGED panel
         [] f.action = "close-notebook-tab" -> CloseRequested(f, i)
    /\ h' = [h EXCEPT ![i].pc = "done"]
    /\ UNCHANGED <<cells, src, docQueue, ncmd, rendered>>
    /\ UNCHANGED <<relayVars, sessVars, timeVars, trackVars>>

\* panel.context.save() rejects; the outer catch logs.
SaveRejected(i) ==
    /\ h[i].pc = "save"
    /\ h' = [h EXCEPT ![i].pc = "done"]
    /\ UNCHANGED <<cells, src, docQueue, ncmd, wsOut, hostVars>>
    /\ UNCHANGED <<relayVars, sessVars, timeVars, trackVars>>

\* What an execution leaves in the outputs of its cell.
OutputSet == {TextResult, PngDisplay, SvgDisplay, PngUpdate}
Produced == {<<>>} \cup {<<o>> : o \in OutputSet}

\* What the outcomes of CodeCell.execute leave in the outputs: nothing when
\* it resolves to nothing, an output and the error when it rejects.
ProducedBy(outcome) ==
    CASE outcome = "ok"     -> Produced
      [] outcome = "none"   -> {<<>>}
      [] outcome = "throws" -> {<<ErrorOutput>>, <<PngDisplay, ErrorOutput>>}

\* The execution count the kernel gives to the next execution.
NextCount ==
    1 + (CHOOSE n \in {executionCount[x] : x \in DOMAIN executionCount} :
            \A x \in DOMAIN executionCount : executionCount[x] <= n)

\* A variant of the step below whose success reply carries the outputs and
\* the execution count the cell held before the execution completed.
ExecutedReadsBefore(i, outcome, produced) ==
    /\ h[i].pc = "exec"
    /\ produced \in ProducedBy(outcome)
    /\ LET f == h[i]
           count == IF outcome = "none" THEN NullCount ELSE NextCount
       IN  /\ outputs' = Put(outputs, f.cell_id, produced)
           /\ executionCount' = Put(executionCount, f.cell_id, count)
           /\ Send(CASE outcome = "ok" ->
                         ExecMsg("cell-executed", f, "success", NoError,
                                 ProcessCellOutputsForLLM(OutputsOf(f.cell_id)),
                                 CountOf(f.cell_id), i)
                     [] outcome = "none" ->
                         ExecMsg("cell-executed", f, "error", ExecutionFailed,
                                 NoField, NoPos, i)
                     [] outcome = "throws" ->
                         ExecMsg("cell-executed", f, "error", ExecutionError,
                                 NoField, NoPos, i))
    /\ h' = [h EXCEPT ![i].pc = "done"]
    /\ dirty' = TRUE
    /\ UNCHANGED <<cells, src, docQueue, ncmd, panel, rendered>>
    /\ UNCHANGED <<cellType, disk, kernel, runs, rl>>
    /\ UNCHANGED <<relayVars, timeVars, trackVars>>

\* execute-cell: the promise of CodeCell.execute settles. outcome "ok": it
\* resolves to the reply message; "none": it resolves to nothing, the cell's
\* execution state cleared; "throws": it rejects. The execution has left
\* produced in the outputs of the cell model.
Executed(i, outcome, produced) ==
    /\ h[i].pc = "exec"
    /\ produced \in ProducedBy(outcome)
    /\ LET f == h[i]
           count == IF outcome = "none" THEN NullCount ELSE NextCount
       IN  /\ outputs' = Put(outputs, f.cell_id, produced)
           /\ executionCount' = Put(executionCount, f.cell_id, count)
           /\ Send(CASE outcome = "ok" ->
                         ExecMsg("cell-executed", f, "success", NoError,
                                 ProcessCellOutputsForLLM(produced), count, i)
                     [] outcome = "none" ->
                         ExecMsg("cell-executed", f, "error", ExecutionFailed,
                                 NoField, NoPos, i)
                     [] outcome = "throws" ->
                         ExecMsg("cell-executed", f, "error", ExecutionError,
                                 NoField, NoPos, i))
    /\ h' = [h EXCEPT ![i].pc = "done"]
    /\ dirty' = TRUE
    /\ UNCHANGED <<cells, src, docQueue, ncmd, panel, rendered>>
    /\ UNCHANGED <<cellType, disk, kernel, runs, rl>>
    /\ UNCHANGED <<relayVars, timeVars, trackVars>>

\* The session gains or loses its kernel.
KernelChanged ==
    /\ kernel' = ~kernel
    /\ UNCHANGED <<cellType, executionCount, outputs, disk, runs, rl, hostVars>>
    /\ UNCHANGED <<feVars, relayVars, timeVars, trackVars>>

\* smartReloadNotebook: context.revert() resolves; the restoring loop
\* handles the first n widgets and then either throws (threw) or goes on to
\* the last widget and the viewport, where it may throw as well.
RevertResolved(i, n, threw) ==
    /\ rl[i].pc = "revert"
    /\ n \in 0..Len(disk)
    /\ ~threw => n = Len(disk)
    /\ cells' = RevertedCells
    /\ src' = RevertedSrc
    /\ cellType' = RevertedType
    /\ executionCount' = RestoredCount(rl[i].cellStates, n)
    /\ outputs' = RestoredOutputs(rl[i].cellStates, n)
    /\ rl' = [rl EXCEPT ![i].pc = IF threw THEN "fallback" ELSE "done",
                        ![i].reread = threw]
    /\ dirty' = \/ RestoredCount(rl[i].cellStates, n) # RevertedCount
                \/ RestoredOutputs(rl[i].cellStates, n) # RevertedOutputs
    /\ UNCHANGED <<docQueue, h, ncmd, wsOut, disk, kernel, runs, panel, rendered>>
    /\ UNCHANGED <<relayVars, timeVars, trackVars>>

\* smartReloadNotebook: context.revert() rejects; the catch starts the
\* regular revert.
RevertRejected(i) ==
    /\ rl[i].pc = "revert"
    /\ rl' = [rl EXCEPT ![i].pc = "fallback"]
    /\ UNCHANGED <<feVars, relayVars, timeVars, trackVars>>
    /\ UNCHANGED <<cellType, executionCount, outputs, disk, kernel, runs, hostVars>>

\* The revert of the catch resolves: the document is what storage holds.
FallbackResolved(i) ==
    /\ rl[i].pc = "fallback"
    /\ cells' = RevertedCells
    /\ src' = RevertedSrc
    /\ cellType' = RevertedType
    /\ executionCount' = RevertedCount
    /\ outputs' = RevertedOutputs
    /\ rl' = [rl EXCEPT ![i].pc = "done", ![i].reread = FALSE]
    /\ dirty' = FALSE
    /\ UNCHANGED <<docQueue, h, ncmd, wsOut, disk, kernel, runs, panel, rendered>>
    /\ UNCHANGED <<relayVars, timeVars, trackVars>>

\* The revert of the catch rejects: smartReloadNotebook's promise rejects.
FallbackRejected(i) ==
    /\ rl[i].pc = "fallback"
    /\ rl' = [rl EXCEPT ![i].pc = "failed", ![i].reread = FALSE]
    /\ UNCHANGED <<feVars, relayVars, timeVars, trackVars>>
    /\ UNCHANGED <<cellType, executionCount, outputs, disk, kernel, runs, hostVars>>

(***************************************************************************)
(* setupWebSocket: the socket, its heartbeat interval and the reconnection. *)
(***************************************************************************)
\* setInterval(..., 10000)
HeartbeatPeriod == 10000
\* setTimeout(() => setupWebSocket(...), 3000)
ReconnectDelay == 3000
\* The heartbeat window of the relay (design value: the heartbeat period).
HeartbeatWindow == 10000

\* The clock stops at MaxTime; at most MaxSocks sockets are created.
MaxTime == 30000
MaxSocks == 2

\* A timer that is not set.
NoTimer == -1

\* The socket that setupWebSocket creates at time t: beats counts the
\* heartbeats sent on it, lastBeat is the time of the last one, due the next
\* tick of its heartbeatInterval, reconnect the timer that onclose sets.
NewSocket(t) ==
    [state |-> "connecting", beats |-> 0, lastBeat |-> NoTimer,
     due |-> t + HeartbeatPeriod, reconnect |-> NoTimer]

\* The socket after ws.send of a frontend-heartbeat at time t.
Beat(sock, t) == [sock EXCEPT !.beats = @ + 1, !.lastBeat = t]

\* The relay's view of its front-end connection: conn is the socket it is
\* the other end of (0: none), last the last-heartbeat timestamp, due the
\* end of the current heartbeat window.
NoWatch == [conn |-> 0, last |-> NoTimer, due |-> NoTimer, evicted |-> FALSE]

\* The relay classifies socket k as a front-end by its heartbeat at time t.
Watching(k, t) ==
    [conn |-> k, last |-> t, due |-> t + HeartbeatWindow, evicted |-> FALSE]

\* The relay receives a heartbeat of socket k at time t.
Watched(k, t) == IF watch.conn = k THEN [watch EXCEPT !.last = t] ELSE Watching(k, t)

\* The timers that are set.
Timers ==
    ({socks[k].due : k \in DOMAIN socks} \cup {socks[k].reconnect : k \in DOMAIN socks}
        \cup {watch.due} \cup {wf.wake}) \ {NoTimer}

\* The time of the timer that fires next.
NextDue == CHOOSE t \in Timers : \A u \in Timers : t <= u

\* Time passes until the next timer is due; a timer fires when it is due,
\* and no time passes while waitFor runs between two of its awaits.
Tick ==
    /\ Timers # {}
    /\ NextDue > now
    /\ wf.pc # "test"
    /\ NextDue <= MaxTime
    /\ now' = NextDue
    /\ UNCHANGED <<socks, watch, wf>>
    /\ UNCHANGED <<feVars, relayVars, sessVars, hostVars, trackVars>>

\* ws.onopen: the initial heartbeat.
OnOpen(k) ==
    /\ k \in DOMAIN socks
    /\ socks[k].state = "connecting"
    /\ socks' = [socks EXCEPT ![k] = Beat([@ EXCEPT !.state = "open"], now)]
    /\ watch' = Watched(k, now)
    /\ UNCHANGED <<now, wf>>
    /\ UNCHANGED <<feVars, relayVars, sessVars, hostVars, trackVars>>

\* HeartbeatInterval that does not fire while a command handler is
\* suspended: the tick is skipped.
HeartbeatWhenIdle(k) ==
    /\ k \in DOMAIN socks
    /\ socks[k].due = now
    /\ LET busy == \E i \in DOMAIN h : h[i].pc \in {"poll", "widget", "kernel", "save", "exec"}
           sent == socks[k].state = "open" /\ ~busy
       IN  /\ socks' = [socks EXCEPT ![k] =
                  [(IF sent THEN Beat(@, now) ELSE @) EXCEPT !.due = now + HeartbeatPeriod]]
           /\ watch' = IF sent THEN Watched(k, now) ELSE watch
    /\ UNCHANGED <<now, wf>>
    /\ UNCHANGED <<feVars, relayVars, sessVars, hostVars, trackVars>>

\* The callback of heartbeatInterval: a heartbeat when the socket is open.
HeartbeatInterval(k) ==
    /\ k \in DOMAIN socks
    /\ socks[k].due = now
    /\ LET sent == socks[k].state = "open"
       IN  /\ socks' = [socks EXCEPT ![k] =
                  [(IF sent THEN Beat(@, now) ELSE @) EXCEPT !.due = now + HeartbeatPeriod]]
           /\ watch' = IF sent THEN Watched(k, now) ELSE watch
    /\ UNCHANGED <<now, wf>>
    /\ UNCHANGED <<feVars, relayVars, sessVars, hostVars, trackVars>>

\* A variant of the step below in which only a socket that had opened sets
\* the reconnection timer when it closes.
OnCloseOfOpenRetries(k) ==
    /\ k \in DOMAIN socks
    /\ socks[k].state \in {"connecting", "open"}
    /\ socks' = [socks EXCEPT ![k] =
                  [@ EXCEPT !.state = "closed", !.due = NoTimer,
                            !.reconnect = IF socks[k].state = "open"
                                          THEN now + ReconnectDelay ELSE NoTimer]]
    /\ watch' = IF watch.conn = k THEN NoWatch ELSE watch
    /\ UNCHANGED <<now, wf>>
    /\ UNCHANGED <<feVars, relayVars, sessVars, hostVars, trackVars>>

\* A variant of the step below without the close listener that clears the
\* heartbeat interval.
OnCloseKeepsInterval(k) ==
    /\ k \in DOMAIN socks
    /\ socks[k].state \in {"connecting", "open"}
    /\ socks' = [socks EXCEPT ![k] = [@ EXCEPT !.state = "closed",
                                                !.reconnect = now + ReconnectDelay]]
    /\ watch' = IF watch.conn = k THEN NoWatch ELSE watch
    /\ UNCHANGED <<now, wf>>
    /\ UNCHANGED <<feVars, relayVars, sessVars, hostVars, trackVars>>

\* The socket closes: ws.onclose sets the reconnection timer and the close
\* listener clears the interval; the relay destroys its Connection.
OnClose(k) ==
    /\ k \in DOMAIN socks
    /\ socks[k].state \in {"connecting", "open"}
    /\ socks' = [socks EXCEPT ![k] = [@ EXCEPT !.state = "closed", !.due = NoTimer,
                                                !.reconnect = now + ReconnectDelay]]
    /\ watch' = IF watch.conn = k THEN NoWatch ELSE watch
    /\ UNCHANGED <<now, wf>>
    /\ UNCHANGED <<feVars, relayVars, sessVars, hostVars, trackVars>>

\* The reconnection timer fires: setupWebSocket creates the next socket.
Reconnect(k) ==
    /\ k \in DOMAIN socks
    /\ socks[k].reconnect = now
    /\ Len(socks) < MaxSocks
    /\ socks' = Append([socks EXCEPT ![k].reconnect = NoTimer], NewSocket(now))
    /\ UNCHANGED <<now, watch, wf>>
    /\ UNCHANGED <<feVars, relayVars, sessVars, hostVars, trackVars>>

\* The relay's heartbeat check at the end of a window: a front-end whose
\* last heartbeat is two windows old has missed two consecutive windows and
\* is evicted.
WindowCheck ==
    /\ watch.due = now
    /\ watch' = IF now - watch.last >= 2 * HeartbeatWindow
                THEN [watch EXCEPT !.evicted = TRUE, !.due = NoTimer]
                ELSE [watch EXCEPT !.due = now + HeartbeatWindow]
    /\ UNCHANGED <<now, socks, wf>>
    /\ UNCHANGED <<feVars, relayVars, sessVars, hostVars, trackVars>>

(***************************************************************************)
(* waitFor(predicate, {timeout, interval}).                                *)
(***************************************************************************)
\* The default interval of waitFor, which no caller overrides.
PollInterval == 100
\* The timeout option of the invocations.
TimeoutInputs == {0, 100, 250}
\* Invocations of waitFor in one behaviour.
MaxWaits == 2

\* calls counts the invocations; value is what predicate() returns now and
\* since the time from which it has returned true without interruption.
\* atCall: it has returned true since before the call.
IdleWait(value) ==
    [pc |-> "idle", startTime |-> 0, timeout |-> 0, wake |-> NoTimer,
     value |-> value, since |-> IF value THEN 0 ELSE NoTimer, atCall |-> FALSE,
     calls |-> 0]

\* waitFor is called: startTime = Date.now().
WaitFor(timeout) ==
    /\ wf.pc \in {"idle", "true", "false"}
    /\ wf.calls < MaxWaits
    /\ wf' = [wf EXCEPT !.pc = "test", !.startTime = now, !.timeout = timeout,
                        !.atCall = wf.value, !.calls = @ + 1]
    /\ UNCHANGED <<now, socks, watch>>
    /\ UNCHANGED <<feVars, relayVars, sessVars, hostVars, trackVars>>

\* The head of the loop and its body up to the sleep.
WaitForTest ==
    /\ wf.pc = "test"
    /\ wf' = IF now - wf.startTime < wf.timeout
             THEN IF wf.value THEN [wf EXCEPT !.pc = "true"]
                  ELSE [wf EXCEPT !.pc = "sleep", !.wake = now + PollInterval]
             ELSE [wf EXCEPT !.pc = "false"]
    /\ UNCHANGED <<now, socks, watch>>
    /\ UNCHANGED <<feVars, relayVars, sessVars, hostVars, trackVars>>

\* The setTimeout of the sleep fires.
WaitForWakes ==
    /\ wf.pc = "sleep"
    /\ wf.wake = now
    /\ wf' = [wf EXCEPT !.pc = "test", !.wake = NoTimer]
    /\ UNCHANGED <<now, socks, watch>>
    /\ UNCHANGED <<feVars, relayVars, sessVars, hostVars, trackVars>>

\* What the predicate reads changes.
PredicateChanges ==
    /\ wf' = [wf EXCEPT !.value = ~@, !.since = IF wf.value THEN NoTimer ELSE now,
                        !.atCall = FALSE]
    /\ UNCHANGED <<now, socks, watch>>
    /\ UNCHANGED <<feVars, relayVars, sessVars, hostVars, trackVars>>

Slots == 1..MaxCmds

\* The panel of the document is open and its socket connected.
InitHost ==
    /\ panel = "tracked"
    /\ dirty = FALSE
    /\ rendered = {}

InitTime ==
    /\ now = 0
    /\ socks = <<Beat([NewSocket(0) EXCEPT !.state = "open"], 0)>>
    /\ watch = Watching(1, 0)
    /\ wf = IdleWait(FALSE)

InitFE ==
    /\ cells = <<1>>
    /\ src = (1 :> "a")
    /\ docQueue = <<>>
    /\ h = [i \in Slots |-> FreeFrame]
    /\ ncmd = 0
    /\ wsOut = <<>>

NextFE ==
    \/ Receive(Commands)
    \/ DocApply
    \/ \E i \in Slots : PollTrue(i)
    \/ \E i \in Slots : PollTimeout(i)
    \/ \E i \in Slots : SaveResolved(i)
    \/ \E i \in Slots : SaveRejected(i)

(***************************************************************************)
(* Sessions: the documents get-cells, execute-cell and reload start from.  *)
(***************************************************************************)
\* What storage holds for one cell.
StoredCell(id, source, st) ==
    [id |-> id, cell_type |-> st.cell_type, source |-> source,
     execution_count |-> st.execution_count, outputs |-> st.outputs]

CleanCode == [cell_type |-> "code", execution_count |-> NullCount, outputs |-> <<>>]

\* The session of a document of one code cell that was never executed.
InitSess ==
    /\ cellType = (1 :> "code")
    /\ executionCount = (1 :> NullCount)
    /\ outputs = (1 :> <<>>)
    /\ disk = <<StoredCell(1, "a", CleanCode)>>
    /\ kernel = FALSE
    /\ runs = {}
    /\ rl = [i \in Slots |-> IdleReload]

\* A document of a code cell with some outputs and a markdown or raw cell.
InitExec ==
    /\ cells = <<1, 2>>
    /\ src = (1 :> "a" @@ 2 :> "b")
    /\ docQueue = <<>>
    /\ h = [i \in Slots |-> FreeFrame]
    /\ ncmd = 0
    /\ wsOut = <<>>
    /\ cellType \in {(1 :> "code" @@ 2 :> t) : t \in {"markdown", "raw"}}
    /\ executionCount = (1 :> NullCount @@ 2 :> NullCount)
    /\ outputs \in {(1 :> o @@ 2 :> <<>>) : o \in Produced}
    /\ disk = <<StoredCell(1, "a", CleanCode), StoredCell(2, "b", CleanCode)>>
    /\ kernel = FALSE
    /\ runs = {}
    /\ rl = [i \in Slots |-> IdleReload]

NextExec ==
    \/ Receive(SessionCommands)
    \/ KernelChanged
    \/ \E i \in Slots : PollTrue(i)
    \/ \E i \in Slots : PollTimeout(i)
    \/ \E i \in Slots, outcome \in {"ok", "none", "throws"},
          produced \in Produced \cup ProducedBy("throws") :
          Executed(i, outcome, produced)

\* Cells that storage may hold: the two of the document and a new one.
MaxDiskCells == 2
StoredIds == {1, 2, 3}

\* The states a cell is in before a reload: never executed, executed with
\* an output, executed without output, markdown.
CellStateInputs ==
    {CleanCode,
     [cell_type |-> "code", execution_count |-> 1, outputs |-> <<TextResult>>],
     [cell_type |-> "code", execution_count |-> 2, outputs |-> <<>>],
     [cell_type |-> "markdown", execution_count |-> NullCount, outputs |-> <<>>]}

\* The states storage holds a cell in.
StoredStateInputs ==
    {CleanCode,
     [cell_type |-> "code", execution_count |-> 3, outputs |-> <<PngDisplay>>]}

\* What storage may hold: up to MaxDiskCells cells with different ids.
DiskInputs ==
    {d \in UNION {[1..n -> [id : StoredIds, st : StoredStateInputs]] :
                     n \in 1..MaxDiskCells} :
        \A j, k \in DOMAIN d : j # k => d[j].id # d[k].id}

\* A document of two cells and a storage that an out-of-band edit changed.
InitReload ==
    /\ cells = <<1, 2>>
    /\ src = (1 :> "a" @@ 2 :> "b")
    /\ docQueue = <<>>
    /\ h = [i \in Slots |-> FreeFrame]
    /\ ncmd = 0
    /\ wsOut = <<>>
    /\ \E s1, s2 \in CellStateInputs :
         /\ cellType = (1 :> s1.cell_type @@ 2 :> s2.cell_type)
         /\ executionCount = (1 :> s1.execution_count @@ 2 :> s2.execution_count)
         /\ outputs = (1 :> s1.outputs @@ 2 :> s2.outputs)
    /\ \E d \in DiskInputs :
         disk = [k \in DOMAIN d |-> StoredCell(d[k].id, "c", d[k].st)]
    /\ kernel = FALSE
    /\ runs = {}
    /\ rl = [i \in Slots |-> IdleReload]

NextReload ==
    \/ Receive(ReloadCommands)
    \/ \E i \in Slots, n \in 0..MaxDiskCells, threw \in BOOLEAN : RevertResolved(i, n, threw)
    \/ \E i \in Slots : RevertRejected(i)
    \/ \E i \in Slots : FallbackResolved(i)
    \/ \E i \in Slots : FallbackRejected(i)

(***************************************************************************)
(* Sessions of open-notebook, save and close-notebook-tab.                 *)
(***************************************************************************)
HostCommands ==
    [action : {"open-notebook", "close-notebook-tab"}, path : PathInputs,
     cell_id : {NoId}, content : {Absent}, waitForSave : {FALSE}]
    \cup [action : {"save"}, path : PathInputs, cell_id : {NoId}, content : {Absent},
          waitForSave : BOOLEAN]

\* The document of InitFE, its panel open or not.
InitHostSession ==
    /\ InitFE
    /\ InitSess
    /\ InitTime
    /\ panel \in {"none", "tracked"}
    /\ dirty = FALSE
    /\ rendered = {}

NextHost ==
    \/ Receive(HostCommands)
    \/ PanelTracked
    \/ PanelDisposed
    \/ UserEdit
    \/ \E i \in Slots : PollTrue(i)
    \/ \E i \in Slots : PollTimeout(i)
    \/ \E i \in Slots : SaveResolved(i)
    \/ \E i \in Slots : SaveRejected(i)

(***************************************************************************)
(* Sessions of insert-cell with a requested position.                      *)
(***************************************************************************)
\* insert-cell messages that carry a position.
InsertCommands ==
    [action : {"insert-cell"}, path : {PanelPath}, cell_id : {NoId},
     content : Contents, position : 0..2]

NextInsert ==
    \/ Receive(InsertCommands)
    \/ DocApply
    \/ \E i \in Slots : PollTrue(i)
    \/ \E i \in Slots : PollTimeout(i)
    \/ \E i \in Slots : SaveResolved(i)
    \/ \E i \in Slots : SaveRejected(i)

(***************************************************************************)
(* Sessions over reconnecting sockets, with the clock running.             *)
(***************************************************************************)
\* execute-cell messages for a code cell of the open document.
ConnCommands ==
    [action : {"execute-cell"}, path : {PanelPath},
     cell_id : {1}, content : {Absent}]

\* The state after activate: the document of one code cell with a kernel
\* attached, the first socket created and not yet open.
InitConn ==
    /\ InitFE
    /\ cellType = (1 :> "code")
    /\ executionCount = (1 :> NullCount)
    /\ outputs = (1 :> <<>>)
    /\ disk = <<StoredCell(1, "a", CleanCode)>>
    /\ kernel = TRUE
    /\ runs = {}
    /\ rl = [i \in Slots |-> IdleReload]
    /\ InitHost
    /\ now = 0
    /\ socks = <<NewSocket(0)>>
    /\ watch = NoWatch
    /\ wf = IdleWait(FALSE)

NextConn ==
    \/ Receive(ConnCommands)
    \/ \E i \in Slots : Executed(i, "ok", <<TextResult>>)
    \/ Tick
    \/ \E k \in 1..MaxSocks : OnOpen(k)
    \/ \E k \in 1..MaxSocks : HeartbeatInterval(k)
    \/ \E k \in 1..MaxSocks : OnClose(k)
    \/ \E k \in 1..MaxSocks : Reconnect(k)
    \/ WindowCheck

(***************************************************************************)
(* Invocations of waitFor.                                                 *)
(***************************************************************************)
InitWait ==
    /\ InitFE
    /\ InitSess
    /\ InitHost
    /\ now = 0
    /\ socks = <<Beat([NewSocket(0) EXCEPT !.state = "open"], 0)>>
    /\ watch = Watching(1, 0)
    /\ wf \in {IdleWait(value) : value \in BOOLEAN}

NextWait ==
    \/ \E timeout \in TimeoutInputs : WaitFor(timeout)
    \/ WaitForTest
    \/ WaitForWakes
    \/ PredicateChanges
    \/ Tick
    \/ \E k \in 1..MaxSocks : HeartbeatInterval(k)
    \/ WindowCheck

(***************************************************************************)
(* The relay: Connection Registry, Heartbeat Classifier, Correlation Table *)
(* and Command Router.                                                     *)
(***************************************************************************)
\* Connections made in one behaviour; identifiers are never reused.
MaxConns == 3
\* Commands the tool connections send in one behaviour.
MaxReq == 2

Conns == 1..MaxConns
ReqIds == 1..MaxReq
NoReq == 0

RelayPaths == {<<"p">>, <<"q">>}

\* Routing keys: (action, path, cell_id); save carries no cell_id.
Key(action, path, cell_id) == [action |-> action, path |-> path, cell_id |-> cell_id]
CmdKeys ==
    {Key("replace-cell", p, 1) : p \in RelayPaths} \cup {Key("save", <<"p">>, NoId)}

\* The command action a reply action answers; None for any other action.
CommandOfReply(action) ==
    CASE action = "cell-replaced" -> "replace-cell"
      [] action = "saved"         -> "save"
      [] OTHER                    -> None

\* The routing key a message from a front-end resolves.
KeyOfReply(msg) == Key(CommandOfReply(msg.action), msg.path, msg.cell_id)

\* What a front-end sends for a forwarded command: the reply (the router
\* passes its success field on as it is), or the reply of index.ts lines
\* 169-173, whose action is not a reply action.
ReplyForms == {"ok", "unmatched"}

\* FrontendReply that names every reply "saved" and leaves the cell_id out.
FrontendReplyAsSaved(key, form) ==
    [action |-> "saved", path |-> key.path, cell_id |-> NoId, success |-> "true"]

FrontendReply(key, form) ==
    [action  |-> IF form = "unmatched" THEN FailedAction(key.action)
                 ELSE ReplyAction(key.action),
     path    |-> key.path,
     cell_id |-> IF form = "unmatched" THEN NoId ELSE key.cell_id,
     success |-> IF form = "ok" THEN "true" ELSE "false"]

Registered == DOMAIN registry
RoleOf(c) == registry[c].role

\* The front-end connections registered for a path.
FrontendsFor(path) ==
    {c \in Registered : RoleOf(c) = "frontend" /\ path \in registry[c].paths}

PendingFor(key) == {e \in pending : e.key = key}

Reply(to, kind, success, orig) ==
    [to |-> to, kind |-> kind, success |-> success, orig |-> orig]

\* A transport connects: a new, unclassified Connection.
Connect ==
    /\ \E c \in Conns :
         /\ status[c] = "new"
         /\ \A b \in Conns : b < c => status[b] # "new"
         /\ status' = [status EXCEPT ![c] = "open"]
         /\ registry' = registry @@
                (c :> [role |-> "unclassified", paths |-> {}])
    /\ UNCHANGED <<pending, feIn, reqs, fwd, delivered, dropped, first>>
    /\ UNCHANGED <<feVars, sessVars, hostVars, timeVars, trackVars>>

\* Heartbeat with the role test left out: a tool connection that sends a
\* heartbeat becomes a front-end.
HeartbeatReclassifies(c) ==
    /\ status[c] = "open"
    /\ registry' = [registry EXCEPT ![c].role = "frontend"]
    /\ first' = [first EXCEPT ![c] = IF @ = "none" THEN "heartbeat" ELSE @]
    /\ UNCHANGED <<status, pending, feIn, reqs, fwd, delivered, dropped>>
    /\ UNCHANGED <<feVars, sessVars, hostVars, timeVars, trackVars>>

\* A bare frontend-heartbeat arrives on connection c.
Heartbeat(c) ==
    /\ status[c] = "open"
    /\ RoleOf(c) \in {"unclassified", "frontend"}
    /\ registry' = [registry EXCEPT ![c].role = "frontend"]
    /\ first' = [first EXCEPT ![c] = IF @ = "none" THEN "heartbeat" ELSE @]
    /\ UNCHANGED <<status, pending, feIn, reqs, fwd, delivered, dropped>>
    /\ UNCHANGED <<feVars, sessVars, hostVars, timeVars, trackVars>>

\* A front-end reports a document path as open.
ReportPath(c, path) ==
    /\ status[c] = "open"
    /\ RoleOf(c) = "frontend"
    /\ path \notin registry[c].paths
    /\ registry' = [registry EXCEPT ![c].paths = @ \cup {path}]
    /\ UNCHANGED <<status, pending, feIn, reqs, fwd, delivered, dropped, first>>
    /\ UNCHANGED <<feVars, sessVars, hostVars, timeVars, trackVars>>

\* The Correlation Table and the replies after connection c is lost: entries
\* whose target was c resolve with a failure to their requester, entries whose
\* requester was c are dropped.
\* PurgePending that forgets the entries whose requester was c.
PurgeTargetOnly(c) == {e \in pending : e.target # c}

PurgePending(c) == {e \in pending : e.requester # c /\ e.target # c}

\* PurgeDelivered that sends no failure for the orphaned requests.
PurgeSilently(c) == delivered

PurgeDelivered(c) ==
    [r \in ReqIds |->
        IF \E e \in pending : e.req = r /\ e.target = c /\ e.requester # c
        THEN Append(delivered[r], Reply(reqs[r].from, "disconnected", "false", NoReq))
        ELSE delivered[r]]

\* Close handling for connection c, in one step of the event loop.
CloseHandling(c) ==
    /\ status' = [status EXCEPT ![c] = "closed"]
    /\ registry' = [b \in Registered \ {c} |-> registry[b]]
    /\ pending' = PurgePending(c)
    /\ delivered' = PurgeDelivered(c)
    /\ feIn' = [feIn EXCEPT ![c] = {}]
    /\ UNCHANGED <<reqs, fwd, dropped, first>>

\* The transport of connection c closes.
Close(c) ==
    /\ status[c] = "open"
    /\ CloseHandling(c)
    /\ UNCHANGED <<feVars, sessVars, hostVars, timeVars, trackVars>>

\* The heartbeat check finds that front-end c has missed two consecutive
\* heartbeat windows: it is evicted, its Connection destroyed.
Evict(c) ==
    /\ status[c] = "open"
    /\ RoleOf(c) = "frontend"
    /\ CloseHandling(c)
    /\ UNCHANGED <<feVars, sessVars, hostVars, timeVars, trackVars>>

\* NoTarget that sends nothing and leaves the requester waiting.
NoTargetSilent(c, key, r) == UNCHANGED <<pending, feIn, fwd, delivered>>

\* The router's answer to a command with key from connection c, as request r.
NoTarget(c, key, r) ==
    /\ delivered' = [delivered EXCEPT ![r] = Append(@, Reply(c, "no-target", "false", NoReq))]
    /\ UNCHANGED <<pending, feIn, fwd>>

RejectDuplicate(c, key, r) ==
    /\ delivered' = [delivered EXCEPT ![r] = Append(@, Reply(c, "duplicate", "false", NoReq))]
    /\ UNCHANGED <<pending, feIn, fwd>>

Forward(c, key, r, t) ==
    /\ pending' = pending \cup {[key |-> key, requester |-> c, target |-> t, req |-> r]}
    /\ feIn' = [feIn EXCEPT ![t] = @ \cup {[req |-> r, key |-> key]}]
    /\ fwd' = [fwd EXCEPT ![r] = Append(@, t)]
    /\ UNCHANGED delivered

\* Route that forwards to every front-end registered for the path.
RouteBroadcast(c, key, r) ==
    IF FrontendsFor(key.path) = {} THEN NoTarget(c, key, r)
    ELSE IF PendingFor(key) # {} THEN RejectDuplicate(c, key, r)
    ELSE /\ pending' = pending \cup
                {[key |-> key, requester |-> c, target |-> t, req |-> r] :
                    t \in FrontendsFor(key.path)}
         /\ feIn' = [t \in Conns |->
                IF t \in FrontendsFor(key.path)
                THEN feIn[t] \cup {[req |-> r, key |-> key]} ELSE feIn[t]]
         /\ fwd' = [fwd EXCEPT ![r] = <<CHOOSE t \in FrontendsFor(key.path) : TRUE>>]
         /\ UNCHANGED delivered

\* Route without the test for an outstanding request with the same key.
RouteUnchecked(c, key, r) ==
    IF FrontendsFor(key.path) = {} THEN NoTarget(c, key, r)
    ELSE \E t \in FrontendsFor(key.path) : Forward(c, key, r, t)

Route(c, key, r) ==
    IF FrontendsFor(key.path) = {} THEN NoTarget(c, key, r)
    ELSE IF PendingFor(key) # {} THEN RejectDuplicate(c, key, r)
    ELSE \E t \in FrontendsFor(key.path) : Forward(c, key, r, t)

\* A document command arrives on connection c, which has sent no heartbeat.
ToolCommand(c, key) ==
    /\ status[c] = "open"
    /\ RoleOf(c) \in {"unclassified", "tool"}
    /\ Len(reqs) < MaxReq
    /\ registry' = [registry EXCEPT ![c].role = "tool"]
    /\ reqs' = Append(reqs, [key |-> key, from |-> c])
    /\ Route(c, key, Len(reqs) + 1)
    /\ first' = [first EXCEPT ![c] = IF @ = "none" THEN "command" ELSE @]
    /\ UNCHANGED <<status, dropped>>
    /\ UNCHANGED <<feVars, sessVars, hostVars, timeVars, trackVars>>

\* Resolve that answers the requester of the command even when its
\* PendingRequest is gone.
ResolveUntracked(msg, orig) ==
    LET key == KeyOfReply(msg) IN
    IF PendingFor(key) # {}
    THEN \E e \in PendingFor(key) :
           /\ pending' = pending \ {e}
           /\ delivered' = [delivered EXCEPT ![e.req] =
                  Append(@, Reply(e.requester, "reply", msg.success, orig))]
           /\ UNCHANGED dropped
    ELSE /\ delivered' = [delivered EXCEPT ![orig] =
                  Append(@, Reply(reqs[orig].from, "reply", msg.success, orig))]
         /\ UNCHANGED <<pending, dropped>>

\* The router's handling of a message msg from a front-end; orig is the
\* command the front-end sent it for.
Resolve(msg, orig) ==
    LET key == KeyOfReply(msg) IN
    IF PendingFor(key) # {}
    THEN \E e \in PendingFor(key) :
           /\ pending' = pending \ {e}
           /\ delivered' = [delivered EXCEPT ![e.req] =
                  Append(@, Reply(e.requester, "reply", msg.success, orig))]
           /\ UNCHANGED dropped
    ELSE /\ dropped' = dropped \cup {orig}
         /\ UNCHANGED <<pending, delivered>>

\* Front-end c sends a message for a command it was forwarded.
FrontendMessage(c, entry, form) ==
    /\ status[c] = "open"
    /\ entry \in feIn[c]
    /\ Resolve(FrontendReply(entry.key, form), entry.req)
    /\ UNCHANGED <<status, registry, feIn, reqs, fwd, first>>
    /\ UNCHANGED <<feVars, sessVars, hostVars, timeVars, trackVars>>

\* Timeout that sends the failure but leaves the entry in the table.
TimeoutKeepsEntry(e) ==
    /\ e \in pending
    /\ Len(delivered[e.req]) < 2
    /\ delivered' = [delivered EXCEPT ![e.req] =
           Append(@, Reply(e.requester, "timeout", "false", NoReq))]
    /\ UNCHANGED <<status, registry, pending, feIn, reqs, fwd, dropped, first>>
    /\ UNCHANGED <<feVars, sessVars, hostVars, timeVars, trackVars>>

\* The deadline of a PendingRequest elapses.
Timeout(e) ==
    /\ e \in pending
    /\ pending' = pending \ {e}
    /\ delivered' = [delivered EXCEPT ![e.req] =
           Append(@, Reply(e.requester, "timeout", "false", NoReq))]
    /\ UNCHANGED <<status, registry, feIn, reqs, fwd, dropped, first>>
    /\ UNCHANGED <<feVars, sessVars, hostVars, timeVars, trackVars>>

PendingRequests ==
    [key : CmdKeys, requester : Conns, target : Conns, req : ReqIds]

ForwardedCommands == [req : ReqIds, key : CmdKeys]

InitRelay ==
    /\ status = [c \in Conns |-> "new"]
    /\ registry = <<>>
    /\ pending = {}
    /\ feIn = [c \in Conns |-> {}]
    /\ reqs = <<>>
    /\ fwd = [r \in ReqIds |-> <<>>]
    /\ delivered = [r \in ReqIds |-> <<>>]
    /\ dropped = {}
    /\ first = [c \in Conns |-> "none"]

NextRelay ==
    \/ Connect
    \/ \E c \in Conns : Heartbeat(c)
    \/ \E c \in Conns, path \in RelayPaths : ReportPath(c, path)
    \/ \E c \in Conns : Evict(c)
    \/ \E c \in Conns, key \in CmdKeys : ToolCommand(c, key)
    \/ \E c \in Conns, entry \in ForwardedCommands, form \in ReplyForms :
          FrontendMessage(c, entry, form)
    \/ \E e \in PendingRequests : Timeout(e)
    \/ \E c \in Conns : Close(c)

(***************************************************************************)
(* The tracker with several panels: which panel a message acts on.         *)
(***************************************************************************)
\* The documents that can be open: a file at the root and files of the same
\* name in two directories.
TrackPaths == {<<"n">>, PanelPath, <<"e", "/", "n">>}

\* The path field of a message that carries none.
NoPath == <<Absent>>

\* No panel: the result of a find that matches nothing.
NoPanelFound == <<>>

\* The argument of endsWith as a string: undefined becomes "undefined".
PathText(path) ==
    IF path = NoPath THEN <<"u", "n", "d", "e", "f", "i", "n", "e", "d">> ELSE path

\* data.path as a condition: false for a missing and for an empty path.
PathGiven(path) == path # NoPath /\ path # <<>>

\* p.context.path === data.path || p.context.path.endsWith(data.path)
PathTest(p, path) == p = path \/ EndsWith(p, PathText(path))

\* p.context.path.endsWith(path.split('/').pop())
FileNameTest(p, path) == EndsWith(p, LastSegment(path))

\* findInTracker and panels.find: the first panel, in the order of
\* tracker.forEach, among those (matches, by index) that satisfy the
\* predicate.
FindInTracker(panels, matches) ==
    IF matches = {} THEN NoPanelFound
    ELSE panels[CHOOSE k \in matches : \A j \in matches : k <= j]

\* The lookup of lines 165-167.
PanelFor(panels, path) ==
    FindInTracker(panels, {k \in DOMAIN panels : PathTest(panels[k], path)})

\* The panel handleReloadAction reloads.
ReloadPanelFor(panels, path) ==
    FindInTracker(panels, {k \in DOMAIN panels : FileNameTest(panels[k], path)})

\* The panel a message acts on, given the panel the lookup selected:
\* insert-cell uses the selected panel; replace-cell, when data.path is
\* given, finds its panel again with the same test; reload, when data.path
\* is given, calls handleReloadAction; without data.path no branch of
\* replace-cell or reload is taken.
TargetOf(panels, data) ==
    IF PanelFor(panels, data.path) = NoPanelFound THEN NoPanelFound
    ELSE CASE data.action = "insert-cell" -> PanelFor(panels, data.path)
           [] data.action = "replace-cell" ->
                IF PathGiven(data.path) THEN PanelFor(panels, data.path)
                ELSE NoPanelFound
           [] data.action = "reload" ->
                IF PathGiven(data.path) THEN ReloadPanelFor(panels, data.path)
                ELSE NoPanelFound

TrackCommands ==
    [action : {"insert-cell", "replace-cell", "reload"},
     path : TrackPaths \cup {<<>>, NoPath}]

NotLooked ==
    [action |-> None, path |-> <<>>, panels |-> <<>>,
     selected |-> NoPanelFound, target |-> NoPanelFound]

\* A document is opened: its panel is added to the tracker.
PanelOpened(p) ==
    /\ \A k \in DOMAIN tracker : tracker[k] # p
    /\ tracker' = Append(tracker, p)
    /\ UNCHANGED looked
    /\ UNCHANGED <<feVars, relayVars, sessVars, hostVars, timeVars>>

\* A panel is disposed of: the tracker drops it.
PanelClosed(k) ==
    /\ k \in DOMAIN tracker
    /\ tracker' = [j \in 1..(Len(tracker) - 1) |-> IF j < k THEN tracker[j] ELSE tracker[j + 1]]
    /\ UNCHANGED looked
    /\ UNCHANGED <<feVars, relayVars, sessVars, hostVars, timeVars>>

\* A message arrives: the panel is looked up and the branch of the action
\* picks the panel it acts on.
Lookup(data) ==
    /\ looked' = [action |-> data.action, path |-> data.path, panels |-> tracker,
                  selected |-> PanelFor(tracker, data.path),
                  target |-> TargetOf(tracker, data)]
    /\ UNCHANGED tracker
    /\ UNCHANGED <<feVars, relayVars, sessVars, hostVars, timeVars>>

InitTracker ==
    /\ tracker = <<PanelPath>>
    /\ looked = NotLooked

NextTrack ==
    \/ \E p \in TrackPaths : PanelOpened(p)
    \/ \E k \in 1..Cardinality(TrackPaths) : PanelClosed(k)
    \/ \E data \in TrackCommands : Lookup(data)

Init == InitFE /\ InitRelay /\ InitSess /\ InitHost /\ InitTime /\ InitTracker

Next ==
    \/ NextFE \/ NextRelay \/ NextExec \/ NextReload
    \/ NextHost \/ NextInsert \/ NextConn \/ NextWait \/ NextTrack

Spec == Init /\ [][Next]_vars

SpecFE == Init /\ [][NextFE]_vars

SpecRelay == Init /\ [][NextRelay]_vars

InitExecSession == InitExec /\ InitRelay /\ InitHost /\ InitTime /\ InitTracker

SpecExec == InitExecSession /\ [][NextExec]_vars

InitReloadSession == InitReload /\ InitRelay /\ InitHost /\ InitTime /\ InitTracker

SpecReload == InitReloadSession /\ [][NextReload]_vars

InitHostRelay == InitHostSession /\ InitRelay /\ InitTracker

SpecHost == InitHostRelay /\ [][NextHost]_vars

SpecInsert == Init /\ [][NextInsert]_vars

InitConnRelay == InitConn /\ InitRelay /\ InitTracker

SpecConn == InitConnRelay /\ [][NextConn]_vars

InitWaitRelay == InitWait /\ InitRelay /\ InitTracker

SpecWait == InitWaitRelay /\ [][NextWait]_vars

SpecTrack == Init /\ [][NextTrack]_vars

\* Timers fire when they are due and the clock advances to the next one.
LiveConn ==
    /\ SpecConn
    /\ WF_vars(Tick)
    /\ WF_vars(\E k \in 1..MaxSocks : HeartbeatInterval(k))
    /\ WF_vars(\E k \in 1..MaxSocks : Reconnect(k))
    /\ WF_vars(WindowCheck)

\* The deadline timer of every PendingRequest fires.
LiveRelay == SpecRelay /\ \A e \in PendingRequests : WF_vars(Timeout(e))

(***************************************************************************)
(* C1: verify-before-acknowledge. Every reply with success=true for an     *)
(* insert-cell, replace-cell or delete-cell command is sent when the       *)
(* document satisfies the command's post-condition: insert, the cell at    *)
(* the reported position has the requested source; replace, the cell with  *)
(* the given id is in the document with the requested source; delete, no   *)
(* cell with the given id is in the document.                              *)
(***************************************************************************)
InsertPost(m) ==
    /\ m.position + 1 <= Len(m.docAt)
    /\ m.docAt[m.position + 1].source = ContentOrEmpty(h[m.cmd].content)

ReplacePost(m) ==
    \E k \in 1..Len(m.docAt) :
        /\ m.docAt[k].id = h[m.cmd].cell_id
        /\ m.docAt[k].source = ContentOrEmpty(h[m.cmd].content)

DeletePost(m) == \A k \in 1..Len(m.docAt) : m.docAt[k].id # h[m.cmd].cell_id

SuccessReplies(action) ==
    {k \in 1..Len(wsOut) : wsOut[k].action = action /\ wsOut[k].success = "true"}

InsertAckVerified == \A k \in SuccessReplies("cell-inserted") : InsertPost(wsOut[k])
ReplaceAckVerified == \A k \in SuccessReplies("cell-replaced") : ReplacePost(wsOut[k])
DeleteAckVerified == \A k \in SuccessReplies("cell-deleted") : DeletePost(wsOut[k])

\* C1: every success reply of insert-cell, replace-cell and delete-cell is
\* sent with the command's post-condition true of the document.
VerifyBeforeAcknowledge ==
    InsertAckVerified /\ ReplaceAckVerified /\ DeleteAckVerified

(***************************************************************************)
(* Relay: history of the commands.                                         *)
(***************************************************************************)
Issued == 1..Len(reqs)
Requester(r) == reqs[r].from
IsPending(r) == \E e \in pending : e.req = r
Kinds(r) == {delivered[r][k].kind : k \in 1..Len(delivered[r])}

(***************************************************************************)
(* C2: every command a tool connection sends eventually receives exactly   *)
(* one reply on that connection unless the tool connection closes first,   *)
(* whether or not a front-end exists for the path, ever answers, or        *)
(* disconnects in the middle of the operation.                             *)
(***************************************************************************)
Answered(r) == Len(delivered[r]) = 1 /\ delivered[r][1].to = Requester(r)

Settled(r) == r \in Issued /\ (Answered(r) \/ status[Requester(r)] = "closed")

\* C2: no command gets two replies, and every command is eventually answered
\* once on its connection unless that connection has closed.
EveryCommandAnswered ==
    /\ [](\A r \in Issued : Len(delivered[r]) <= 1)
    /\ \A r \in ReqIds : [](r \in Issued => <>Settled(r))

\* A command was forwarded, the front-end never answered it, and the
\* requester has its one reply.
UnansweredCommandReplied ==
    \E r \in Issued :
        /\ Answered(r)
        /\ delivered[r][1].kind = "timeout"
        /\ status[Requester(r)] = "open"

(***************************************************************************)
(* C3: at most one reply is delivered for a request, only to the           *)
(* connection that issued it, and only a front-end message carrying the    *)
(* request's routing key resolves it; a front-end message whose key has no *)
(* PendingRequest (already resolved by a reply, a timeout or a disconnect) *)
(* is discarded and changes nothing else.                                  *)
(***************************************************************************)
OneReplyToRequester ==
    \A r \in Issued :
        /\ Len(delivered[r]) <= 1
        /\ \A k \in 1..Len(delivered[r]) :
              /\ delivered[r][k].to = Requester(r)
              /\ delivered[r][k].kind = "reply" =>
                    reqs[delivered[r][k].orig].key = reqs[r].key

DiscardChangesNothing ==
    dropped' # dropped =>
        UNCHANGED <<status, registry, pending, feIn, reqs, fwd, delivered, first>>

CommandReceived == Len(reqs') = Len(reqs) + 1

NoFrontendStep ==
    (CommandReceived /\ FrontendsFor(reqs'[Len(reqs')].key.path) = {}) =>
        /\ delivered'[Len(reqs')] =
              <<Reply(reqs'[Len(reqs')].from, "no-target", "false", NoReq)>>
        /\ UNCHANGED <<pending, feIn, fwd>>

NoFrontendNeverForwarded ==
    \A r \in Issued :
        "no-target" \in Kinds(r) =>
            /\ Len(delivered[r]) = 1
            /\ fwd[r] = <<>>
            /\ ~IsPending(r)

\* C4: with no front-end for the path the receiving step sends the failure,
\* tracks and forwards nothing, and the command is never forwarded later.
NoFrontendFailsAtOnce == [][NoFrontendStep]_vars /\ []NoFrontendNeverForwarded

\* A command was refused for want of a front-end, and a front-end has
\* registered for its path since.
RefusedThenFrontendAppears ==
    \E r \in Issued :
        /\ "no-target" \in Kinds(r)
        /\ FrontendsFor(reqs[r].key.path) # {}

(***************************************************************************)
(* C5: the Correlation Table never holds two PendingRequests with the same *)
(* routing key; a command whose key is outstanding is rejected.            *)
(***************************************************************************)
\* C5: no two PendingRequests of the Correlation Table share a routing key.
AtMostOnePendingPerKey ==
    \A e1, e2 \in pending : e1.key = e2.key => e1 = e2

\* A command was rejected while a request with its key is outstanding.
DuplicateKeyRejected ==
    \E r \in Issued :
        /\ "duplicate" \in Kinds(r)
        /\ PendingFor(reqs[r].key) # {}

(***************************************************************************)
(* C6: when a front-end connection is lost, every request pending on it is *)
(* resolved with a failure delivered to its requester; no command is ever  *)
(* forwarded a second time; requests pending on other front-ends stay      *)
(* pending.                                                                *)
(***************************************************************************)
\* C6: the requests pending on a lost front-end are failed to their
\* requesters, nothing is forwarded twice, other pending requests remain.
FrontendLossFailsItsRequests ==
    \A r \in Issued :
        /\ Len(fwd[r]) <= 1
        /\ Len(fwd[r]) = 1 =>
              /\ status[fwd[r][1]] = "closed" =>
                    /\ ~IsPending(r)
                    /\ status[Requester(r)] = "open" => Answered(r)
              /\ "disconnected" \in Kinds(r) => status[fwd[r][1]] = "closed"
              /\ (/\ status[fwd[r][1]] = "open"
                  /\ status[Requester(r)] = "open"
                  /\ delivered[r] = <<>>) => IsPending(r)

\* One front-end was lost with a request pending on it, which got its
\* failure, while a request is pending on another front-end.
LostFrontendOtherPending ==
    \E r1, r2 \in Issued :
        /\ delivered[r1] = <<Reply(Requester(r1), "disconnected", "false", NoReq)>>
        /\ IsPending(r2)
        /\ fwd[r2][1] # fwd[r1][1]

(***************************************************************************)
(* C7: when the deadline of a PendingRequest elapses the entry is removed  *)
(* and exactly one synthetic failure is sent to the requester; the reply   *)
(* the front-end sends for that command afterwards is never delivered to   *)
(* any tool connection.                                                    *)
(***************************************************************************)
\* C7: a timed-out request has exactly one reply, no table entry, and the
\* front-end's reply to it is delivered for no request.
LateReplyNeverDelivered ==
    \A r \in Issued :
        "timeout" \in Kinds(r) =>
            /\ Len(delivered[r]) = 1
            /\ ~IsPending(r)
            /\ \A r2 \in Issued : \A k \in 1..Len(delivered[r2]) :
                  delivered[r2][k].orig # r

(***************************************************************************)
(* C8: once the close of a connection has been handled, neither the        *)
(* Connection Registry nor the Correlation Table references it.            *)
(***************************************************************************)
\* C8: a closed connection is in neither the registry nor any
\* PendingRequest, as requester or as target.
ClosedConnectionPurged ==
    \A c \in Conns :
        status[c] = "closed" =>
            /\ c \notin Registered
            /\ \A e \in pending : e.requester # c /\ e.target # c

\* A tool connection closed while its request was pending on a front-end.
RequesterClosedWhilePending ==
    \E r \in Issued :
        /\ Len(fwd[r]) = 1
        /\ delivered[r] = <<>>
        /\ status[Requester(r)] = "closed"
        /\ status[fwd[r][1]] = "open"

(***************************************************************************)
(* C9: a connection is unclassified until its first message; a first       *)
(* message that is a bare heartbeat makes it a front-end, a first message  *)
(* that is a document command makes it a tool; a tool connection is never  *)
(* the target of a forwarded command.                                      *)
(***************************************************************************)
\* C9: the role of a connection follows its first message, and no tool
\* connection is ever a forward target.
RoleByFirstMessage ==
    /\ \A c \in Registered :
          /\ first[c] = "none" => RoleOf(c) = "unclassified"
          /\ first[c] = "heartbeat" => RoleOf(c) = "frontend"
          /\ first[c] = "command" => RoleOf(c) = "tool"
    /\ \A r \in Issued : \A k \in 1..Len(fwd[r]) :
          /\ first[fwd[r][k]] = "heartbeat"
          /\ \A r2 \in Issued : Requester(r2) # fwd[r][k]
    /\ \A e \in pending : RoleOf(e.target) = "frontend" /\ RoleOf(e.requester) = "tool"

\* The command of a tool connection was forwarded to a front-end while
\* another connection is still unclassified.
ToolAndFrontendClassified ==
    \E r \in Issued :
        /\ Len(fwd[r]) = 1
        /\ Requester(r) \in Registered
        /\ RoleOf(Requester(r)) = "tool"
        /\ \E c \in Registered : RoleOf(c) = "unclassified"

(***************************************************************************)
(* C10: a command the relay accepts is forwarded to exactly one front-end, *)
(* one that is registered for the command's path, and tracked by exactly   *)
(* one PendingRequest, also when several front-ends are registered for the *)
(* path.                                                                   *)
(***************************************************************************)
Rejected(r) == Kinds(r) \cap {"no-target", "duplicate"} # {}

ForwardedOnce ==
    \A r \in Issued :
        /\ Len(fwd[r]) = (IF Rejected(r) THEN 0 ELSE 1)
        /\ Cardinality({e \in pending : e.req = r}) <= 1
        /\ Cardinality({c \in Conns : \E x \in feIn[c] : x.req = r}) <= 1
        /\ \A e \in pending : e.req = r => fwd[r] = <<e.target>> /\ e.key = reqs[r].key
        /\ \A c \in Conns : \A x \in feIn[c] :
              x.req = r => fwd[r] = <<c>> /\ x.key = reqs[r].key

ForwardStep ==
    \A r \in ReqIds :
        fwd'[r] # fwd[r] =>
            /\ CommandReceived
            /\ r = Len(reqs')
            /\ \E t \in FrontendsFor(reqs'[r].key.path) :
                  /\ fwd'[r] = <<t>>
                  /\ feIn' = [feIn EXCEPT ![t] = @ \cup {[req |-> r, key |-> reqs'[r].key]}]
                  /\ pending' = pending \cup
                        {[key |-> reqs'[r].key, requester |-> reqs'[r].from,
                          target |-> t, req |-> r]}

\* C10: an accepted command goes to exactly one front-end registered for
\* its path and has exactly one PendingRequest.
ForwardedToExactlyOne == []ForwardedOnce /\ [][ForwardStep]_vars

\* A command is pending while two front-ends are registered for its path.
ForwardedWithTwoCandidates ==
    \E r \in Issued :
        /\ IsPending(r)
        /\ Cardinality(FrontendsFor(reqs[r].key.path)) >= 2

(***************************************************************************)
(* Front-end: history of the handlers.                                     *)
(***************************************************************************)
\* The message a step has sent, when it has sent exactly one.
SentOne == Len(wsOut') = Len(wsOut) + 1
LastSent == wsOut'[Len(wsOut')]

\* The step is the receipt of a message by ws.onmessage.
Received == ncmd' = ncmd + 1
\* The frame of the message received in the step.
NewFrame == h'[ncmd']

\* The pcs of a handler suspended in an await.
Suspended == PollPcs \cup {"save", "exec"}

(***************************************************************************)
(* C11: a delete-cell command naming a cell_id that no cell of the target  *)
(* document has yields a failure reply whose error text contains that      *)
(* cell_id, and leaves the cells of the document unchanged.                *)
(***************************************************************************)
DeleteOfMissingCell ==
    /\ Received
    /\ NewFrame.action = "delete-cell"
    /\ PanelMatches(NewFrame.path)
    /\ NewFrame.cell_id # NoId
    /\ \A k \in 1..Len(cells) : cells[k] # NewFrame.cell_id

NamesCell(m, id) ==
    /\ m.action = "cell-deleted"
    /\ m.success = "false"
    /\ m.cell_id = id
    /\ \E k \in 1..Len(m.error) : m.error[k] = IdText(id)

\* C11: the step that receives a delete-cell for a cell_id the document does
\* not have sends one failure reply naming the cell_id and changes no cell.
DeleteMissingCellFails ==
    [][DeleteOfMissingCell =>
          /\ SentOne
          /\ NamesCell(LastSent, NewFrame.cell_id)
          /\ cells' = cells /\ src' = src /\ docQueue' = docQueue]_vars

\* A cell was deleted, and a second delete-cell for it was refused by name.
DeletedCellDeletedAgain ==
    \E j, k \in 1..Len(wsOut) :
        /\ j < k
        /\ wsOut[j].action = "cell-deleted" /\ wsOut[j].success = "true"
        /\ NamesCell(wsOut[k], wsOut[j].cell_id)
        /\ Len(cells) > 0

(***************************************************************************)
(* C12: execute-cell for a code cell with no kernel attached before the    *)
(* attach-wait deadline yields a failure reply classified as an execution  *)
(* error about kernel availability; the cell is never executed and the     *)
(* reply carries no outputs and no execution count.                        *)
(***************************************************************************)
KernelFailure(m, f, i) ==
    /\ m.action = "cell-executed"
    /\ m.path = f.path /\ m.cell_id = f.cell_id /\ m.cmd = i
    /\ m.status = "error"
    /\ m.error_type = "ExecutionError"
    /\ m.error = KernelNotAvailable
    /\ m.outputs = NoField
    /\ m.execution_count = NoPos

KernelWaitEnds(i) == h[i].pc = "kernel" /\ h'[i].pc # "kernel"

\* C12: a handler waiting for the kernel calls CodeCell.execute only with a
\* kernel attached; otherwise its wait ends with the kernel failure reply
\* and the handler done, which never executes the cell.
NoKernelNoExecution ==
    /\ [](\A i \in Slots : h[i].pc = "kernel" => i \notin runs)
    /\ [][\A i \in Slots : h[i].pc = "done" /\ i \notin runs => i \notin runs']_vars
    /\ [][\A i \in Slots :
            KernelWaitEnds(i) =>
               \/ kernel /\ h'[i].pc = "exec"
               \/ /\ h'[i].pc = "done"
                  /\ SentOne /\ KernelFailure(LastSent, h[i], i)
                  /\ runs' = runs
                  /\ executionCount' = executionCount /\ outputs' = outputs]_vars

\* The kernel wait of an execute-cell for a code cell ended by its deadline
\* with no kernel attached.
KernelWaitTimedOut ==
    \E k \in 1..Len(wsOut) :
        /\ wsOut[k].action = "cell-executed"
        /\ wsOut[k].error = KernelNotAvailable
        /\ TypeOf(wsOut[k].cell_id) = "code"
        /\ ~kernel
        /\ h[wsOut[k].cmd].pc = "done"

(***************************************************************************)
(* C13: in every outputs list sent in a get-cells or cell-executed reply,  *)
(* every value under an image/* media type, of any output type and of      *)
(* either shape, is a placeholder naming the media type and the original   *)
(* byte length; other values are passed through unchanged.                 *)
(***************************************************************************)
RECURSIVE ListByteLength(_)
ListByteLength(strings) ==
    IF strings = <<>> THEN 0
    ELSE ByteLength(Head(strings)) + ListByteLength(Tail(strings))

OriginalSize(v) ==
    IF v.shape = "string" THEN ByteLength(v.body) ELSE ListByteLength(v.body)

Truncated(outs) ==
    [k \in 1..Len(outs) |->
        [outs[k] EXCEPT !.data =
            [m \in DOMAIN outs[k].data |->
                IF IsImage(m) THEN Placeholder(m, OriginalSize(outs[k].data[m]))
                ELSE outs[k].data[m]]]]

SentOutputsTruncated(m) ==
    /\ m.action = "cells-data" =>
          \A k \in 1..Len(m.cells) :
              m.cells[k].outputs # NoField =>
                  m.cells[k].outputs = Truncated(OutputsOf(m.cells[k].cell_id))
    /\ m.action = "cell-executed" /\ m.outputs # NoField =>
          m.outputs = Truncated(outputs'[m.cell_id])

\* C13: every outputs list the front-end sends is the cell's outputs with
\* each image value replaced by its placeholder and nothing else changed.
NoRawImageData == [][SentOne => SentOutputsTruncated(LastSent)]_vars

(***************************************************************************)
(* C14: after a reload every code cell that was executed before it and     *)
(* whose identity the re-read left unchanged has the execution count and   *)
(* the outputs it had before the reload.                                   *)
(***************************************************************************)
ReloadCompletes(i) == rl[i].pc = "revert" /\ rl'[i].pc = "done"

KeptInPlace(st, k) ==
    /\ st[k].isCodeCell
    /\ st[k].executionCount # NullCount
    /\ k <= Len(cells')
    /\ cells'[k] = st[k].id
    /\ cellType'[st[k].id] = "code"

NothingExecuted(st) ==
    \A k \in 1..Len(st) : st[k].executionCount = NullCount /\ st[k].outputs = <<>>

\* The document of the next state is what storage holds.
PlainReload ==
    /\ cells' = RevertedCells
    /\ \A x \in DiskIds :
          /\ src'[x] = DiskCell(x).source
          /\ cellType'[x] = DiskCell(x).cell_type
          /\ executionCount'[x] = DiskCell(x).execution_count
          /\ outputs'[x] = DiskCell(x).outputs

\* C15: the step that completes a reload whose snapshot has no execution
\* count and no outputs leaves the document as storage holds it.
UnexecutedReloadIsPlain ==
    [][\A i \in Slots :
          ReloadCompletes(i) /\ NothingExecuted(rl[i].cellStates) => PlainReload]_vars

\* A reload with nothing executed in its snapshot has completed over a
\* storage that holds outputs and an execution count for a cell.
UnexecutedReloadShowsStoredState ==
    \E i \in Slots :
        /\ rl[i].pc = "done"
        /\ Len(rl[i].cellStates) > 0
        /\ NothingExecuted(rl[i].cellStates)
        /\ \E j \in 1..Len(cells) :
              /\ cellType[cells[j]] = "code"
              /\ outputs[cells[j]] # <<>>
              /\ executionCount[cells[j]] # NullCount

(***************************************************************************)
(* C16: if a step of a reload fails after the snapshot, the document ends  *)
(* as a plain re-read from storage leaves it, with no saved execution      *)
(* state applied to any cell, never to only some of them.                  *)
(***************************************************************************)
FailedReloadEnds(i) == rl[i].pc = "fallback" /\ rl'[i].pc \in {"done", "failed"}

\* C16: the step that ends a reload in which a step has failed leaves a
\* document that was re-read with every cell as storage holds it.
FailedReloadIsPlain ==
    [][\A i \in Slots : FailedReloadEnds(i) /\ rl[i].reread => PlainReload]_vars

(***************************************************************************)
(* C17: every reply the front-end sends for a command, success or failure, *)
(* carries the reply action of the command's action together with the      *)
(* command's path and cell_id.                                             *)
(***************************************************************************)
MatchesCommand(m) ==
    /\ m.action = ReplyAction(h[m.cmd].action)
    /\ m.path = h[m.cmd].path
    /\ m.cell_id = h[m.cmd].cell_id

\* C17: every message sent has the reply action, the path and the cell_id of
\* the command it answers.
RepliesNamedAfterCommand == \A k \in 1..Len(wsOut) : MatchesCommand(wsOut[k])

(***************************************************************************)
(* C18: the handling of a command does not start reading or mutating the   *)
(* document while the handling of an earlier command is suspended.         *)
(***************************************************************************)
TouchesDocument(f) ==
    /\ PanelMatches(f.path)
    /\ \/ f.action = "insert-cell"
       \/ f.action \in {"replace-cell", "delete-cell"} /\ f.cell_id # NoId

\* C18: no message that makes its handler read or mutate the document is
\* received while an earlier handler is suspended in an await.
OneMessageAtATime ==
    [][Received /\ TouchesDocument(NewFrame) =>
          \A j \in 1..ncmd : h[j].pc \notin Suspended]_vars

(***************************************************************************)
(* C19: a fault thrown at any step of the handling of a command still      *)
(* yields a failure reply; it never ends the handling without a reply.     *)
(***************************************************************************)
\* C19: the step in which a suspended handler ends sends a message of that
\* handler.
SuspendedHandlerEndsWithReply ==
    [][\A i \in Slots :
          h[i].pc \in Suspended /\ h'[i].pc = "done" =>
             SentOne /\ LastSent.cmd = i]_vars

(***************************************************************************)
(* C20: when the execution of a code cell fails, the failure reply carries *)
(* the outputs the cell produced up to the failure whenever it has some.   *)
(***************************************************************************)
ExecutionEnds(i) == h[i].pc = "exec" /\ h'[i].pc = "done"

\* C20: the failure reply of an execution that left outputs in the cell
\* carries an outputs list.
FailureReplyCarriesOutputs ==
    [][\A i \in Slots :
          (/\ ExecutionEnds(i) /\ SentOne
           /\ LastSent.status = "error"
           /\ outputs'[h[i].cell_id] # <<>>)
          => LastSent.outputs # NoField]_vars

(***************************************************************************)
(* C21: when the waitFor of insert-cell, replace-cell, delete-cell or      *)
(* open-notebook ends without a poll having found the post-condition, the  *)
(* handler sends exactly one reply for the command, a failure, whose error *)
(* text states what was expected and what was observed.                    *)
(***************************************************************************)
\* The post-condition that the waitFor of frame f polls, in this state.
Verified(f) ==
    CASE f.action = "open-notebook" -> OpenVerified(f)
      [] f.action = "insert-cell"  -> InsertVerified(f, cells, src)
      [] f.action = "replace-cell" -> ReplaceVerified(f, cells, src)
      [] f.action = "delete-cell"  -> DeleteVerified(f, cells, src)

\* The waitFor of handler i ends while its post-condition does not hold.
PollGivesUp(i) == h[i].pc = "poll" /\ h'[i].pc # "poll" /\ ~Verified(h[i])

\* What the handler expected to read: the content of the command, or the id
\* of the cell that was to go.
ExpectedText(f) ==
    CASE f.action \in {"insert-cell", "replace-cell"} -> ContentOrEmpty(f.content)
      [] f.action = "delete-cell" -> IdText(f.cell_id)
      [] OTHER -> "<path>"

\* The error text has the expected value and a further interpolated part
\* (the observed one) among its pieces.
StatesExpectedAndObserved(m, f) ==
    /\ Len(m.error) >= 3
    /\ \E k \in 1..Len(m.error) : m.error[k] = ExpectedText(f)

\* C21: the step in which a verification poll gives up sends the only
\* message of its command: a failure under the reply action of the command,
\* with a diagnostic of what was expected and what was observed.
VerificationTimeoutFails ==
    [][\A i \in Slots :
          PollGivesUp(i) =>
             /\ SentOne
             /\ LastSent.cmd = i
             /\ LastSent.action = ReplyAction(h[i].action)
             /\ LastSent.success = "false"
             /\ \A k \in 1..Len(wsOut) : wsOut[k].cmd # i
             /\ h'[i].pc = "done"
             /\ StatesExpectedAndObserved(LastSent, h[i])]_vars

(***************************************************************************)
(* C22: a success reply of open-notebook is sent with the opened panel in  *)
(* the tracker, a success reply of save with the document saved, and a     *)
(* success reply of close-notebook-tab with the panel gone from the        *)
(* tracker.                                                                *)
(***************************************************************************)
\* What the success reply m reports holds in the state it is sent in.
SuccessObserved(m) ==
    CASE m.action = "notebook-opened" ->
           m.path = PanelPath /\ panel' \in {"tracked", "closing"}
      [] m.action = "saved" -> ~dirty'
      [] m.action = "notebook-tab-closed" -> panel' = "none"
      [] OTHER -> TRUE

\* C22: every success reply of open-notebook, save and close-notebook-tab
\* is sent in a state in which what it reports is so.
SuccessOnlyWhenObserved ==
    [][SentOne /\ LastSent.success = "true" => SuccessObserved(LastSent)]_vars

(***************************************************************************)
(* C23: on every connection of the front-end the first message sent is a   *)
(* bare frontend-heartbeat, and on a connection made by a reconnection the *)
(* front-end announces the document path it has open.                      *)
(***************************************************************************)
\* The messages of the handlers that were sent on socket k.
SentOn(k) == {j \in 1..Len(wsOut) : h[wsOut[j].cmd].ws = k}

\* A message on socket k, sent by no command handler, that names the path
\* of the open document.
Announced(k) ==
    \E j \in 1..Len(wsOut) :
        /\ wsOut[j].cmd = 0
        /\ wsOut[j].ws = k
        /\ wsOut[j].path = PanelPath

\* C23: a socket that has carried a message of a handler has carried a
\* heartbeat before it, and a socket made by a reconnection that has sent
\* its second heartbeat, its document open, has carried an announcement of
\* the document's path.
HeartbeatFirstThenAnnounce ==
    \A k \in 1..Len(socks) :
        /\ SentOn(k) # {} => socks[k].beats >= 1
        /\ (k > 1 /\ socks[k].beats >= 2 /\ panel = "tracked") => Announced(k)

MarkdownExecuteEnds(i) ==
    /\ h'[i].action = "execute-cell"
    /\ TypeOf(h'[i].cell_id) = "markdown"
    /\ h[i].pc # "done" /\ h'[i].pc = "done"
    /\ h[i].pc = "free" => PanelMatches(h'[i].path)
    /\ FindCellIndex(cells, h'[i].cell_id) > 0

\* C25: an execute-cell handler for a markdown cell ends by sending the
\* success reply with an empty output list and with the cell rendered; it
\* was never waiting for the kernel or for an execution and starts none.
MarkdownExecuteSucceeds ==
    [][\A i \in Slots :
          MarkdownExecuteEnds(i) =>
              /\ LastSent = ExecMsg("cell-executed", h'[i], "success", NoError,
                                    <<>>, NoPos, i)
              /\ h'[i].cell_id \in rendered'
              /\ h[i].pc \notin {"kernel", "exec"}
              /\ i \notin runs']_vars

\* A markdown cell was rendered and answered with success, with no kernel
\* attached and no execution started.
MarkdownRenderedWithoutKernel ==
    \E i \in Slots :
        /\ h[i].pc = "done" /\ h[i].action = "execute-cell"
        /\ TypeOf(h[i].cell_id) = "markdown"
        /\ h[i].cell_id \in rendered
        /\ ~kernel /\ runs = {}
        /\ wsOut # <<>>
        /\ wsOut[Len(wsOut)] = ExecMsg("cell-executed", h[i], "success", NoError,
                                       <<>>, NoPos, i)

(***************************************************************************)
(* C26: for every command the front-end receives, with every combination   *)
(* of optional fields and every kind of target cell, the handler ends and  *)
(* sends exactly one final reply for the command.                          *)
(***************************************************************************)
\* The final replies sent for command i: every message of the handler but
\* the acknowledgement that precedes an execution.
FinalReplies(i) ==
    {k \in 1..Len(wsOut) :
        wsOut[k].cmd = i /\ wsOut[k].action # "cell-execution-acknowledged"}

\* C26: a handler that has ended has sent exactly one final reply.
EndedHandlerHasOneReply ==
    \A i \in Slots : h[i].pc = "done" => Cardinality(FinalReplies(i)) = 1

(***************************************************************************)
(* C27: insert-cell places the new cell at the position requested in the   *)
(* command: for a requested position p with 0 <= p <= cell count, after a  *)
(* success reply the new cell is at index p and the reply's position is p. *)
(***************************************************************************)
\* Handler i sends the success reply of an insert-cell command that carried
\* a position between 0 and the cell count at its receipt.
InsertedWithPosition(i) ==
    /\ SentOne
    /\ LastSent.action = "cell-inserted" /\ LastSent.success = "true"
    /\ LastSent.cmd = i
    /\ h[i].requested # NoPos /\ h[i].requested <= h[i].position

\* C27: the success reply of an insert-cell command with a requested position
\* carries that position, and the cell the reply names is at that index.
InsertedAtRequestedPosition ==
    [][\A i \in Slots :
          InsertedWithPosition(i) =>
              /\ LastSent.position = h[i].requested
              /\ h[i].requested < Len(cells')
              /\ cells'[h[i].requested + 1] = LastSent.cell_id]_vars

(***************************************************************************)
(* C28: on successful execution of a code cell the cell-executed reply     *)
(* carries the output list and the execution count that the cell named by  *)
(* the command's cell_id holds when the execution completes.               *)
(***************************************************************************)
\* C28: the success reply of an execution names the command's cell and
\* carries that cell's outputs and execution count as they are after the
\* step that completes the execution.
ExecutedReplyReadsTarget ==
    [][\A i \in Slots :
          (ExecutionEnds(i) /\ SentOne /\ LastSent.status = "success") =>
              /\ LastSent.cmd = i
              /\ LastSent.cell_id = h[i].cell_id
              /\ LastSent.outputs =
                     ProcessCellOutputsForLLM(outputs'[h[i].cell_id])
              /\ LastSent.execution_count = executionCount'[h[i].cell_id]]_vars

\* The last message is the success reply of an execution with outputs, with
\* the values its cell holds, while another cell holds another count.
ExecutedReplyOfTarget ==
    /\ wsOut # <<>>
    /\ LET m == wsOut[Len(wsOut)] IN
       /\ m.action = "cell-executed" /\ m.status = "success"
       /\ m.outputs # <<>>
       /\ m.outputs = ProcessCellOutputsForLLM(OutputsOf(m.cell_id))
       /\ m.execution_count = CountOf(m.cell_id)
       /\ TypeOf(m.cell_id) = "code"
       /\ \E c \in DOMAIN executionCount :
              c # m.cell_id /\ CountOf(c) # m.execution_count

(***************************************************************************)
(* C29: after the re-read of a reload the cell at position k receives the  *)
(* saved execution count and the saved outputs exactly when the snapshot   *)
(* has an entry at k that was a code cell with a non-empty output list and *)
(* the reloaded cell at k is a code cell; every other reloaded cell keeps  *)
(* the execution count and the outputs that the re-read produced.          *)
(***************************************************************************)
\* The snapshot st has at index k a code cell with outputs, and the cell the
\* re-read left at k is a code cell.
SavedWithOutputs(st, k) ==
    /\ k <= Len(st)
    /\ st[k].isCodeCell
    /\ st[k].outputs # <<>>
    /\ cellType'[cells'[k]] = "code"

\* C29: the step that completes a reload gives the cells for which the
\* snapshot has a code cell with outputs at their index the saved execution
\* count and outputs, and leaves to every other cell what storage holds.
ReloadRestoresCellsWithOutputsOnly ==
    [][\A i \in Slots :
          ReloadCompletes(i) =>
             \A k \in 1..Len(cells') :
                LET x == cells'[k]
                    st == rl[i].cellStates
                IN  IF SavedWithOutputs(st, k)
                    THEN /\ executionCount'[x] = st[k].executionCount
                         /\ outputs'[x] = st[k].outputs
                    ELSE /\ executionCount'[x] = RevertedCount[x]
                         /\ outputs'[x] = RevertedOutputs[x]]_vars

(***************************************************************************)
(* C30: waitFor returns true only if the predicate was true at one of its  *)
(* polls, and it returns true whenever the predicate becomes true strictly *)
(* before the deadline and stays true from then on, also for a predicate   *)
(* that is already true when waitFor is called with timeout 0.             *)
(***************************************************************************)
\* The predicate holds now and has held without interruption since before
\* the deadline of the running invocation, or since before the invocation.
EstablishedBeforeDeadline ==
    /\ wf.value
    /\ wf.atCall \/ wf.since < wf.startTime + wf.timeout

\* C30: waitFor returns true only from a poll that found the predicate true,
\* and never returns false for a predicate established before the deadline.
WaitForReportsCondition ==
    [][/\ (wf.pc = "test" /\ wf'.pc = "true") => wf.value
       /\ (wf.pc = "test" /\ wf'.pc = "false") => ~EstablishedBeforeDeadline]_vars

(***************************************************************************)
(* C31: after its connection closes the front-end eventually attempts a    *)
(* new connection, after every close, also when the closed socket had      *)
(* never opened; a new connection that opens sends heartbeats and handles  *)
(* commands again.                                                         *)
(***************************************************************************)
\* Socket k has closed, no later socket exists, and the reconnection delay
\* ends before the clock stops.
ClosedAndLast(k) ==
    /\ k = Len(socks)
    /\ socks[k].state = "closed"
    /\ now + ReconnectDelay <= MaxTime

InsertedCellsDiffer ==
    \A j, k \in SuccessReplies("cell-inserted") :
        j # k => wsOut[j].cell_id # wsOut[k].cell_id

\* The cell that the reply m names was, when m was sent, at the position m
\* reports, with the source the command asked for.
InsertedAsRequested(m) ==
    /\ m.position + 1 <= Len(m.docAt)
    /\ m.docAt[m.position + 1].id = m.cell_id
    /\ m.docAt[m.position + 1].source = ContentOrEmpty(h[m.cmd].content)

\* C32: every successful cell-inserted reply names a cell of its own, which
\* is at the reported position with the requested source when it is sent.
InsertedReplyIdentifiesCell ==
    /\ InsertedCellsDiffer
    /\ \A k \in SuccessReplies("cell-inserted") : InsertedAsRequested(wsOut[k])

(***************************************************************************)
(* C33: under any interleaving, and when the document applies deletions    *)
(* asynchronously, delete-cell for cell_id X never removes a cell whose id *)
(* is not X: once all commands have completed the only cells missing are   *)
(* those named by delete-cell commands; two concurrent delete-cell         *)
(* commands for the same X remove exactly one cell.                        *)
(***************************************************************************)
\* No handler is running and no mutation waits to be applied.
Quiescent ==
    /\ docQueue = <<>>
    /\ \A i \in Slots : h[i].pc \in {"free", "done"}

\* The cells that were in the document and are no longer in it.
MissingCells == {x \in DOMAIN src : FindCellIndex(cells, x) = 0}

\* The cells named by the delete-cell commands received.
NamedForDeletion == {h[i].cell_id : i \in {j \in Slots : h[j].action = "delete-cell"}}

\* C33: when all commands have completed, every cell missing from the
\* document was named by a delete-cell command.
OnlyNamedCellsDeleted == Quiescent => MissingCells \subseteq NamedForDeletion

(***************************************************************************)
(* C36: reload never attaches saved execution state to a different cell:   *)
(* a cell that after a reload carries an execution count or outputs taken  *)
(* from the snapshot has the identity of the cell they were captured from, *)
(* also when the re-read has cells inserted, removed or reordered.         *)
(***************************************************************************)
\* The cell at index k of the next state carries an execution count or
\* outputs that are not those of storage.
CarriesSavedState(k) ==
    \/ executionCount'[cells'[k]] # RevertedCount[cells'[k]]
    \/ outputs'[cells'[k]] # RevertedOutputs[cells'[k]]

\* C36: the step that completes a reload leaves saved state only on cells
\* that are the cells the snapshot took it from.
SavedStateStaysWithItsCell ==
    [][\A i \in Slots :
          ReloadCompletes(i) =>
             \A k \in 1..Len(cells') :
                CarriesSavedState(k) =>
                    /\ k <= Len(rl[i].cellStates)
                    /\ rl[i].cellStates[k].id = cells'[k]]_vars

(***************************************************************************)
(* C37: for every execute-cell command the front-end sends exactly one     *)
(* cell-execution-acknowledged message and afterwards exactly one          *)
(* cell-executed message, both with the command's path and cell_id; no     *)
(* cell-executed precedes the acknowledgement of its command and the cell  *)
(* is not executed more than once per command.                             *)
(***************************************************************************)
\* The indices in wsOut of the messages with the given action of command i.
SentFor(i, action) ==
    {k \in 1..Len(wsOut) : wsOut[k].cmd = i /\ wsOut[k].action = action}

\* An execute-cell command that reached its handler: a panel was found.
ExecuteHandled(i) ==
    /\ h[i].action = "execute-cell"
    /\ SentFor(i, "execute-failed") = {}

\* Every cell-executed message of command i follows an acknowledgement of i,
\* and both carry the path and the cell_id of the command.
AcknowledgedFirst(i) ==
    /\ \A k \in SentFor(i, "cell-executed") :
          \E j \in SentFor(i, "cell-execution-acknowledged") : j < k
    /\ \A k \in SentFor(i, "cell-executed") \cup SentFor(i, "cell-execution-acknowledged") :
          wsOut[k].path = h[i].path /\ wsOut[k].cell_id = h[i].cell_id

\* C37: a handled execute-cell command has one acknowledgement, at most one
\* cell-executed message, which follows it, and exactly one when the handler
\* has ended.
AcknowledgedThenExecutedOnce ==
    \A i \in Slots :
        (h[i].pc # "free" /\ ExecuteHandled(i)) =>
            /\ Cardinality(SentFor(i, "cell-execution-acknowledged")) = 1
            /\ Cardinality(SentFor(i, "cell-executed")) <= 1
            /\ AcknowledgedFirst(i)
            /\ h[i].pc = "done" => Cardinality(SentFor(i, "cell-executed")) = 1

(***************************************************************************)
(* C38: a reply to a command received on connection C is only ever sent on *)
(* C: when C closes while the handler runs and the front-end reconnects    *)
(* with a new connection, the handler's reply is not sent on the new       *)
(* connection; it is dropped.                                              *)
(***************************************************************************)
\* C38: the send of every message of a handler was called on the socket on
\* which the handler's command arrived.
RepliesStayOnTheirSocket ==
    \A j \in 1..Len(wsOut) : wsOut[j].ws = h[wsOut[j].cmd].ws

\* A handler whose command arrived on the first socket has sent its reply
\* after that socket closed and a second socket was created: the send was
\* called on the first socket, closed, which discards the data.
ReplyDroppedAfterReconnect ==
    \E j \in 1..Len(wsOut) :
        /\ wsOut[j].action = "cell-executed"
        /\ h[wsOut[j].cmd].ws = 1
        /\ wsOut[j].ws = 1 /\ wsOut[j].readyState = "closed"
        /\ wsOut[j].newest = 2
        /\ socks[2].state = "open"

(***************************************************************************)
(* C39: one live socket and one heartbeat timer.                           *)
(***************************************************************************)
\* The sockets that are connecting or open.
LiveSockets == {k \in DOMAIN socks : socks[k].state \in {"connecting", "open"}}

\* The sockets whose heartbeat interval is set.
ActiveIntervals == {k \in DOMAIN socks : socks[k].due # NoTimer}

\* At most one socket is live, at most one interval is set, and an interval
\* that is set belongs to a socket that has not closed.
OneSocketOneInterval ==
    /\ Cardinality(LiveSockets) <= 1
    /\ Cardinality(ActiveIntervals) <= 1
    /\ \A k \in ActiveIntervals : socks[k].state # "closed"

\* A step that sends a heartbeat on socket k leaves it in the OPEN state.
BeatsOnlyWhenOpen ==
    \A k \in DOMAIN socks :
        socks'[k].beats > socks[k].beats => socks'[k].state = "open"

\* C39: in every reachable state, across opens, closes and reconnects, at
\* most one socket is connecting or open, at most one heartbeat timer is
\* active and it belongs to a socket that has not closed; and a heartbeat is
\* sent only on a socket in the OPEN state.
OneLiveSocketOneTimer == []OneSocketOneInterval /\ [][BeatsOnlyWhenOpen]_vars

\* A first socket that sent heartbeats, closed and lost its interval, and
\* its successor, open with its own interval and a heartbeat sent.
SecondSocketBeats ==
    /\ Len(socks) >= 2
    /\ socks[1].state = "closed" /\ socks[1].beats >= 1 /\ socks[1].due = NoTimer
    /\ socks[2].state = "open" /\ socks[2].beats >= 2 /\ socks[2].due # NoTimer

(***************************************************************************)
(* C40: a command without content.                                         *)
(***************************************************************************)
\* The step sends the verification failure of handler i.
VerificationFails(i) ==
    /\ Len(wsOut') = Len(wsOut) + 1
    /\ LastSent.cmd = i
    /\ LastSent.success = "false"
    /\ LastSent.error = VerifyFailed(h[i].action)

\* The empty cell of an insert-cell without content is in the document, at
\* the position the handler inserted it.
EmptyCellInserted(i) ==
    /\ h[i].position < Len(cells')
    /\ src'[cells'[h[i].position + 1]] = ""

\* The cell of a replace-cell without content is in the document with an
\* empty source.
SourceEmptied(i) ==
    /\ FindCellIndex(cells', h[i].cell_id) > 0
    /\ src'[h[i].cell_id] = ""

\* insert-cell without content never reports a verification failure while
\* the empty cell it inserted is observable.
InsertWithoutContentNotFailed ==
    \A i \in Slots :
        (h[i].action = "insert-cell" /\ h[i].content = Absent /\ VerificationFails(i))
            => ~EmptyCellInserted(i)

\* replace-cell without content never reports a verification failure while
\* the cell's source is observably empty.
ReplaceWithoutContentNotFailed ==
    \A i \in Slots :
        (h[i].action = "replace-cell" /\ h[i].content = Absent /\ VerificationFails(i))
            => ~SourceEmptied(i)

\* C40: an insert-cell or replace-cell command without content whose
\* mutation is applied and observable is not answered with a verification
\* failure: absent content is the empty string both when the mutation is
\* applied and when it is verified.
AbsentContentVerifiedAsEmpty ==
    [][InsertWithoutContentNotFailed /\ ReplaceWithoutContentNotFailed]_vars

(***************************************************************************)
(* C34: a command acts on the document its path names.                     *)
(***************************************************************************)
\* The last message looked up was a command on the cells of a document.
LookedCommand == looked.action \in {"insert-cell", "replace-cell"}

\* A panel with exactly the path of the message was open at the lookup.
ExactPanelOpen == \E k \in DOMAIN looked.panels : looked.panels[k] = looked.path

\* With a panel of exactly that path open, the command acts on it.
ExactPanelPreferred == (LookedCommand /\ ExactPanelOpen) => looked.target = looked.path

\* A command with an empty or a missing path acts on no panel.
NoPathNoTarget == (LookedCommand /\ ~PathGiven(looked.path)) => looked.target = NoPanelFound

\* C34: a command with path P acts only on the open document identified by
\* P: on the panel whose path is exactly P when there is one, whatever the
\* order in which the panels were opened, and on no panel when its path is
\* empty or missing.
CommandActsOnItsDocument == ExactPanelPreferred /\ NoPathNoTarget

(***************************************************************************)
(* C35: reload reloads the panel the path lookup selects.                  *)
(***************************************************************************)
\* C35: a reload command with path P reloads exactly the panel that the
\* path lookup selects for P, and no other.
ReloadActsOnSelectedPanel ==
    (looked.action = "reload" /\ PathGiven(looked.path))
        => looked.target = looked.selected

====
